---- MODULE Spec2Model ----
(***************************************************************************)
(* go-sync-fs: the chained filesystem engine (ChainFS), its tiers          *)
(* (LocalFS with the cache list and the lock table) and the FUSE adapter   *)
(* that talks to the engine through the HTTP file server.                  *)
(*                                                                         *)
(* The repository holds two revisions of the engine: chain_fs.go (no lock  *)
(* table calls) and the revision with Lock/Unlock/IsLocked.  chainVer      *)
(* selects the revision a run executes; the tiers are the LocalFS of       *)
(* server_fs.go with the lock table.                                       *)
(***************************************************************************)
EXTENDS Integers, Sequences, FiniteSets, TLC

(* ------------------------------ bounds --------------------------------- *)
NTiers == 2
MaxLen == 3
MaxTime == 5

(* ------------------------- program constants --------------------------- *)
ReadLock == 0
WriteLock == 1
ExclusiveLock == 2
PropagateMode == 420
Umask == 18
CacheMaxSize == 2
SelfPid == 1

Tiers == 0 .. (NTiers - 1)
Paths == {"a", "b"}
Pids == {SelfPid, 2}
LockTypes == {ReadLock, WriteLock, ExclusiveLock}
Modes == {420, 128, 0}

RoleMain == "main"
RoleCache == "cache"

(* error values of the Go code, by kind *)
Nil == "nil"
ErrNotExist == "not exist"
ErrPermission == "permission denied"
ErrUnsupported == "unsupported"
ErrLocked == "locked"
ErrNotLocked == "not locked"
ErrNotOwner == "different process"
ErrNoLockFS == "no lockable filesystem"
ErrHTTP == "http error"
ErrNotDir == "not a directory"
Blocked == "blocked"
Skipped == "skipped"
NotTried == "not tried"

(* ------------------------------ the disk ------------------------------- *)
NoFile == [exists |-> FALSE, content |-> <<>>, mode |-> 0]
NoLock == [held |-> FALSE, LockType |-> 0, ProcessID |-> 0, CreatedAt |-> 0]

(* bit k of a file mode *)
Bit(m, k) == (m \div (2 ^ k)) % 2

RECURSIVE AndNotFrom(_, _, _)
AndNotFrom(m, u, k) ==
    IF k > 8 THEN 0
    ELSE (2 ^ k) * Bit(m, k) * (1 - Bit(u, k)) + AndNotFrom(m, u, k + 1)

(* mode &^ umask on the nine permission bits *)
AndNot(m, u) == AndNotFrom(m, u, 0)

(* the mode a file created with each mode argument gets *)
CreateMode == [m \in Modes \cup {PropagateMode} |-> AndNot(m, Umask)]

(* the owner may read / write the file, or the daemon runs as root *)
MayRead(f, root) == root \/ Bit(f.mode, 8) = 1
MayWrite(f, root) == root \/ Bit(f.mode, 7) = 1

(* --------------------------- cache controller -------------------------- *)
RECURSIVE RemoveFirst(_, _)
RemoveFirst(list, path) ==
    IF list = <<>> THEN <<>>
    ELSE IF Head(list).Path = path THEN Tail(list)
    ELSE <<Head(list)>> \o RemoveFirst(Tail(list), path)

removeCacheEntry(l, path) ==
    [l EXCEPT !.cacheList = RemoveFirst(l.cacheList, path)]

(* updateCacheEntry appending without removing the entry already there *)
updateCacheEntry_AppendOnly(l, path, size, t) ==
    [l EXCEPT !.cacheList =
        Append(l.cacheList, [Path |-> path, Size |-> size, LastUsed |-> t])]

updateCacheEntry(l, path, size, t) ==
    [l EXCEPT !.cacheList =
        Append(RemoveFirst(l.cacheList, path),
               [Path |-> path, Size |-> size, LastUsed |-> t])]

RECURSIVE SumSizes(_)
SumSizes(list) ==
    IF list = <<>> THEN 0 ELSE Head(list).Size + SumSizes(Tail(list))

RECURSIVE OldestFrom(_, _, _)
OldestFrom(list, i, oldestIdx) ==
    IF i > Len(list) THEN oldestIdx
    ELSE IF list[i].LastUsed < list[oldestIdx].LastUsed
         THEN OldestFrom(list, i + 1, i)
         ELSE OldestFrom(list, i + 1, oldestIdx)

(* the search keeping the entry used last instead of the one used first *)
OldestIdx_Newest(list) ==
    CHOOSE k \in 1 .. Len(list) :
        \A j \in 1 .. Len(list) : list[j].LastUsed <= list[k].LastUsed

OldestIdx(list) == OldestFrom(list, 1, 1)

DropAt(list, i) == SubSeq(list, 1, i - 1) \o SubSeq(list, i + 1, Len(list))

RECURSIVE EvictLoop(_, _, _)
EvictLoop(l, currentSize, needed) ==
    IF currentSize + needed > l.config.MaxSize /\ Len(l.cacheList) > 0
    THEN LET oldestIdx == OldestIdx(l.cacheList)
             oldestEntry == l.cacheList[oldestIdx]
         IN IF ~l.root[oldestEntry.Path].exists
            THEN [err |-> ErrNotExist, l |-> l]
            ELSE EvictLoop(
                   [l EXCEPT !.root[oldestEntry.Path] = NoFile,
                             !.cacheList = DropAt(l.cacheList, oldestIdx)],
                   currentSize - oldestEntry.Size, needed)
    ELSE [err |-> Nil, l |-> l]

(* ensureCacheSpace dropping the error of the loop *)
ensureCacheSpace_IgnoreError(l, needed) ==
    IF l.config.Role # RoleCache THEN [err |-> Nil, l |-> l]
    ELSE [err |-> Nil, l |-> EvictLoop(l, SumSizes(l.cacheList), needed).l]

ensureCacheSpace(l, needed) ==
    IF l.config.Role # RoleCache THEN [err |-> Nil, l |-> l]
    ELSE EvictLoop(l, SumSizes(l.cacheList), needed)

(* ------------------------------ lock table ----------------------------- *)
(* LocalFSLock with the coalescing test looking at the request only *)
LocalFSLock_CoalesceAnyRead(l, path, lockType, processID, t) ==
    IF ~l.config.Features.CanLock THEN [err |-> ErrUnsupported, l |-> l]
    ELSE IF ~l.root[path].exists THEN [err |-> ErrNotExist, l |-> l]
    ELSE IF l.locks[path].held
         THEN IF lockType = ReadLock
              THEN [err |-> Nil, l |-> l]
              ELSE [err |-> ErrLocked, l |-> l]
    ELSE [err |-> Nil,
          l |-> [l EXCEPT !.locks[path] =
                    [held |-> TRUE, LockType |-> lockType,
                     ProcessID |-> processID, CreatedAt |-> t]]]

(* LocalFSLock without the os.Stat of the file *)
LocalFSLock_NoStat(l, path, lockType, processID, t) ==
    IF ~l.config.Features.CanLock THEN [err |-> ErrUnsupported, l |-> l]
    ELSE IF l.locks[path].held
         THEN IF l.locks[path].LockType = ReadLock /\ lockType = ReadLock
              THEN [err |-> Nil, l |-> l]
              ELSE [err |-> ErrLocked, l |-> l]
    ELSE [err |-> Nil,
          l |-> [l EXCEPT !.locks[path] =
                    [held |-> TRUE, LockType |-> lockType,
                     ProcessID |-> processID, CreatedAt |-> t]]]

(* LocalFSLock handing the record to the caller it turns away *)
LocalFSLock_Takeover(l, path, lockType, processID, t) ==
    IF ~l.config.Features.CanLock THEN [err |-> ErrUnsupported, l |-> l]
    ELSE IF ~l.root[path].exists THEN [err |-> ErrNotExist, l |-> l]
    ELSE IF l.locks[path].held
         THEN IF l.locks[path].LockType = ReadLock /\ lockType = ReadLock
              THEN [err |-> Nil, l |-> l]
              ELSE [err |-> ErrLocked,
                    l |-> [l EXCEPT !.locks[path].ProcessID = processID]]
    ELSE [err |-> Nil,
          l |-> [l EXCEPT !.locks[path] =
                    [held |-> TRUE, LockType |-> lockType,
                     ProcessID |-> processID, CreatedAt |-> t]]]

LocalFSLock(l, path, lockType, processID, t) ==
    IF ~l.config.Features.CanLock THEN [err |-> ErrUnsupported, l |-> l]
    ELSE IF ~l.root[path].exists THEN [err |-> ErrNotExist, l |-> l]
    ELSE IF l.locks[path].held
         THEN IF l.locks[path].LockType = ReadLock /\ lockType = ReadLock
              THEN [err |-> Nil, l |-> l]
              ELSE [err |-> ErrLocked, l |-> l]
    ELSE [err |-> Nil,
          l |-> [l EXCEPT !.locks[path] =
                    [held |-> TRUE, LockType |-> lockType,
                     ProcessID |-> processID, CreatedAt |-> t]]]

(* LocalFSUnlock without the comparison of the process ids *)
LocalFSUnlock_AnyPid(l, path, processID) ==
    IF ~l.config.Features.CanLock THEN [err |-> ErrUnsupported, l |-> l]
    ELSE IF ~l.locks[path].held THEN [err |-> ErrNotLocked, l |-> l]
    ELSE [err |-> Nil, l |-> [l EXCEPT !.locks[path] = NoLock]]

LocalFSUnlock(l, path, processID) ==
    IF ~l.config.Features.CanLock THEN [err |-> ErrUnsupported, l |-> l]
    ELSE IF ~l.locks[path].held THEN [err |-> ErrNotLocked, l |-> l]
    ELSE IF l.locks[path].ProcessID # processID
         THEN [err |-> ErrNotOwner, l |-> l]
    ELSE [err |-> Nil, l |-> [l EXCEPT !.locks[path] = NoLock]]

LocalFSIsLocked(l, path) ==
    IF ~l.config.Features.CanLock
    THEN [locked |-> FALSE, lockType |-> 0, err |-> ErrUnsupported]
    ELSE IF l.locks[path].held
         THEN [locked |-> TRUE, lockType |-> l.locks[path].LockType, err |-> Nil]
         ELSE [locked |-> FALSE, lockType |-> 0, err |-> Nil]

(* ------------------------------- the tier ------------------------------ *)
LocalFSInfo(l, path) ==
    IF ~l.root[path].exists
    THEN [err |-> ErrNotExist, Size |-> 0, Mode |-> 0]
    ELSE [err |-> Nil, Size |-> Len(l.root[path].content),
          Mode |-> l.root[path].mode]

(* os.ReadDir returns the entries sorted by name; "" is the tier's root    *)
(* directory, which NewLocalFS has created                                *)
LocalFSList(l, path) ==
    IF path = ""
    THEN LET names == SelectSeq(<<"a", "b", "c">>,
                                LAMBDA n : n \in DOMAIN l.root /\ l.root[n].exists)
         IN [err |-> Nil,
             files |-> [k \in 1 .. Len(names) |->
                          [Name |-> names[k],
                           Size |-> Len(l.root[names[k]].content),
                           Mode |-> l.root[names[k]].mode]]]
    ELSE IF path \in DOMAIN l.root /\ l.root[path].exists
    THEN [err |-> ErrNotDir, files |-> <<>>]
    ELSE [err |-> ErrNotExist, files |-> <<>>]

(* result: err, data, the tier afterwards, the clock afterwards *)
LocalFSRead(l, path, root, t) ==
    LET chk == LocalFSIsLocked(l, path)
    IN IF l.config.Features.CanLock /\ chk.locked
          /\ chk.lockType \in {WriteLock, ExclusiveLock}
       THEN [err |-> ErrLocked, data |-> <<>>, l |-> l, t |-> t]
       ELSE IF ~l.root[path].exists
       THEN [err |-> ErrNotExist, data |-> <<>>, l |-> l, t |-> t]
       ELSE IF ~MayRead(l.root[path], root)
       THEN [err |-> ErrPermission, data |-> <<>>, l |-> l, t |-> t]
       ELSE IF l.config.Role = RoleCache
       THEN [err |-> Nil, data |-> l.root[path].content,
             l |-> updateCacheEntry(l, path, Len(l.root[path].content), t),
             t |-> t + 1]
       ELSE [err |-> Nil, data |-> l.root[path].content, l |-> l, t |-> t]

(* os.OpenFile without O_TRUNC: an existing file keeps its bytes *)
OpenFileTrunc_NoTrunc(l, path, mode) ==
    IF l.root[path].exists
    THEN l
    ELSE [l EXCEPT !.root[path] =
            [exists |-> TRUE, content |-> <<>>, mode |-> CreateMode[mode]]]

(* os.OpenFile(O_CREATE|O_WRONLY|O_TRUNC, mode): a new file gets mode less *)
(* the umask, an existing one is truncated and keeps its mode              *)
OpenFileTrunc(l, path, mode) ==
    IF l.root[path].exists
    THEN [l EXCEPT !.root[path].content = <<>>]
    ELSE [l EXCEPT !.root[path] =
            [exists |-> TRUE, content |-> <<>>, mode |-> CreateMode[mode]]]

(* f.Write on the fresh descriptor: the bytes go to offset 0, bytes of the  *)
(* file beyond them stay                                                    *)
FileWrite(l, path, content) ==
    LET old == l.root[path].content
    IN [l EXCEPT !.root[path].content =
          content \o SubSeq(old, Len(content) + 1, Len(old))]

FileChmod(l, path, mode) == [l EXCEPT !.root[path].mode = mode]

WriteLockCheck(l, path) ==
    IF l.config.Features.CanLock /\ l.locks[path].held
    THEN IF l.locks[path].ProcessID = SelfPid
            /\ l.locks[path].LockType \in {WriteLock, ExclusiveLock}
         THEN Nil
         ELSE ErrLocked
    ELSE Nil

LocalFSWrite(l, path, content, mode, root, t) ==
    IF ~l.config.Features.CanUpdate
    THEN [err |-> ErrUnsupported, l |-> l, t |-> t]
    ELSE IF WriteLockCheck(l, path) # Nil
    THEN [err |-> ErrLocked, l |-> l, t |-> t]
    ELSE LET e == ensureCacheSpace(l, Len(content))
         IN IF e.err # Nil THEN [err |-> e.err, l |-> e.l, t |-> t]
            ELSE IF e.l.root[path].exists /\ ~MayWrite(e.l.root[path], root)
            THEN [err |-> ErrPermission, l |-> e.l, t |-> t]
            ELSE LET w == FileChmod(FileWrite(OpenFileTrunc(e.l, path, mode),
                                              path, content), path, mode)
                 IN IF l.config.Role = RoleCache
                    THEN [err |-> Nil,
                          l |-> updateCacheEntry(w, path, Len(content), t),
                          t |-> t + 1]
                    ELSE [err |-> Nil, l |-> w, t |-> t]

LocalFSDelete(l, path) ==
    IF ~l.config.Features.CanDelete THEN [err |-> ErrUnsupported, l |-> l]
    ELSE IF l.config.Features.CanLock /\ LocalFSIsLocked(l, path).locked
    THEN [err |-> ErrLocked, l |-> l]
    ELSE IF ~l.root[path].exists THEN [err |-> ErrNotExist, l |-> l]
    ELSE LET d == [l EXCEPT !.root[path] = NoFile]
         IN [err |-> Nil,
             l |-> IF l.config.Role = RoleCache THEN removeCacheEntry(d, path)
                   ELSE d]

(* ------------------------------ the engine ----------------------------- *)
RECURSIVE FirstLockableFrom(_, _)
FirstLockableFrom(fss, i) ==
    IF i >= NTiers THEN -1
    ELSE IF fss[i].config.Features.CanLock THEN i
    ELSE FirstLockableFrom(fss, i + 1)

(* index of the first tier that supports locking, -1 when there is none *)
findFirstLockableFS(fss) == FirstLockableFrom(fss, 0)

NoTierErr == [k \in Tiers |-> NotTried]

(* sync.RWMutex of the engine: RLock waits while a writer holds the mutex  *)
(* or has announced itself, Lock waits while anybody holds it              *)
(* RLock held back by a waiting writer only, not by the one holding the lock *)
RLockWaits_IgnoreWriter(m) == m.pending

RLockWaits(m) == m.writer \/ m.pending

(* Lock entering although readers hold the mutex *)
LockWaits_IgnoreReaders(m) == m.writer

LockWaits(m) == m.writer \/ m.readers > 0
RLock(m) == [m EXCEPT !.readers = m.readers + 1]
RUnlock(m) == [m EXCEPT !.readers = m.readers - 1]
Lock(m) == [m EXCEPT !.writer = TRUE]
Unlock(m) == [m EXCEPT !.writer = FALSE]

ChainFSLock(fss, path, lockType, processID, t) ==
    LET i == findFirstLockableFS(fss)
    IN IF i < 0 THEN [err |-> ErrNoLockFS, fss |-> fss]
       ELSE LET r == LocalFSLock(fss[i], path, lockType, processID, t)
            IN [err |-> r.err, fss |-> [fss EXCEPT ![i] = r.l]]

ChainFSUnlock(fss, path, processID) ==
    LET i == findFirstLockableFS(fss)
    IN IF i < 0 THEN [err |-> ErrNoLockFS, fss |-> fss]
       ELSE LET r == LocalFSUnlock(fss[i], path, processID)
            IN [err |-> r.err, fss |-> [fss EXCEPT ![i] = r.l]]

(* IsLocked after its RLock has been granted *)
ChainFSIsLocked(fss, path) ==
    LET i == findFirstLockableFS(fss)
    IN IF i < 0 THEN [locked |-> FALSE, lockType |-> 0, err |-> ErrNoLockFS]
       ELSE LocalFSIsLocked(fss[i], path)

RECURSIVE InfoFrom(_, _, _, _)
InfoFrom(fss, path, i, lastErr) ==
    IF i >= NTiers THEN [err |-> lastErr, Size |-> 0, Mode |-> 0]
    ELSE LET r == LocalFSInfo(fss[i], path)
         IN IF r.err = Nil THEN r ELSE InfoFrom(fss, path, i + 1, r.err)

(* Info asking the first tier only *)
ChainFSInfo_FirstTier(fss, path) ==
    LET r == LocalFSInfo(fss[0], path)
    IN IF r.err = Nil THEN r ELSE [err |-> r.err, Size |-> 0, Mode |-> 0]

ChainFSInfo(fss, path) == InfoFrom(fss, path, 0, Nil)

RECURSIVE ListFrom(_, _, _, _)
ListFrom(fss, path, i, lastErr) ==
    IF i >= NTiers THEN [err |-> lastErr, files |-> <<>>, found |-> -1]
    ELSE LET r == LocalFSList(fss[i], path)
         IN IF r.err = Nil THEN [err |-> Nil, files |-> r.files, found |-> i]
            ELSE ListFrom(fss, path, i + 1, r.err)

RECURSIVE PropagateFrom(_, _, _, _, _, _, _)
PropagateFrom(fss, path, content, i, root, t, perr) ==
    IF i < 0 THEN [fss |-> fss, t |-> t, tierErr |-> perr]
    ELSE IF fss[i].config.Features.CanUpdate
    THEN LET w == LocalFSWrite(fss[i], path, content, PropagateMode, root, t)
         IN PropagateFrom([fss EXCEPT ![i] = w.l], path, content, i - 1, root,
                          w.t, [perr EXCEPT ![i] = w.err])
    ELSE PropagateFrom(fss, path, content, i - 1, root, t,
                       [perr EXCEPT ![i] = Skipped])

(* propagateContent with the loop starting one tier too low *)
propagateContent_OffByOne(fss, path, content, foundIndex, root, t) ==
    PropagateFrom(fss, path, content, foundIndex - 2, root, t, NoTierErr)

propagateContent(fss, path, content, foundIndex, root, t) ==
    PropagateFrom(fss, path, content, foundIndex - 1, root, t, NoTierErr)

RECURSIVE ReadFrom(_, _, _, _, _, _)
ReadFrom(fss, path, root, t, i, lastErr) ==
    IF i >= NTiers
    THEN [err |-> lastErr, data |-> <<>>, fss |-> fss, t |-> t,
          found |-> -1, tierErr |-> NoTierErr]
    ELSE LET r == LocalFSRead(fss[i], path, root, t)
         IN IF r.err = Nil
            THEN LET p == propagateContent([fss EXCEPT ![i] = r.l], path,
                                           r.data, i, root, r.t)
                 IN [err |-> Nil, data |-> r.data, fss |-> p.fss, t |-> p.t,
                     found |-> i, tierErr |-> p.tierErr]
            ELSE ReadFrom(fss, path, root, t, i + 1, r.err)

(* the tier walk handing a failed back-propagation write to the caller *)
ChainFSRead0_PropagationError(fss, path, root, t) ==
    LET r == ReadFrom(fss, path, root, t, 0, Nil)
        bad == {i \in Tiers : r.tierErr[i] \notin {Nil, NotTried, Skipped}}
    IN IF bad = {} THEN r
       ELSE [r EXCEPT !.err = r.tierErr[CHOOSE i \in bad : TRUE],
                      !.data = <<>>]

(* the tier walk starting at the second tier *)
ChainFSRead0_FromSecond(fss, path, root, t) ==
    ReadFrom(fss, path, root, t, 1, Nil)

(* chain_fs.go: the tier walk with back-propagation, no lock-table check *)
ChainFSRead0(fss, path, root, t) == ReadFrom(fss, path, root, t, 0, Nil)

(* ChainFSRead refusing a path with a lock record of any type *)
ChainFSRead_AnyLock(fss, path, root, t) ==
    LET chk == ChainFSIsLocked(fss, path)
    IN IF chk.err = Nil /\ chk.locked
       THEN [err |-> ErrLocked, data |-> <<>>, fss |-> fss, t |-> t,
             found |-> -1, tierErr |-> NoTierErr]
       ELSE ReadFrom(fss, path, root, t, 0, Nil)

(* the revision with locking: the lock-table check, then the tier walk *)
ChainFSRead(fss, path, root, t) ==
    LET chk == ChainFSIsLocked(fss, path)
    IN IF chk.err = Nil /\ chk.locked
          /\ chk.lockType \in {WriteLock, ExclusiveLock}
       THEN [err |-> ErrLocked, data |-> <<>>, fss |-> fss, t |-> t,
             found |-> -1, tierErr |-> NoTierErr]
       ELSE ReadFrom(fss, path, root, t, 0, Nil)

RECURSIVE WriteFrom(_, _, _, _, _, _, _, _, _)
WriteFrom(fss, path, content, mode, root, t, i, lastErr, terr) ==
    IF i >= NTiers
    THEN [err |-> lastErr, fss |-> fss, t |-> t, tierErr |-> terr]
    ELSE IF fss[i].config.Features.CanUpdate
    THEN LET w == LocalFSWrite(fss[i], path, content, mode, root, t)
         IN WriteFrom([fss EXCEPT ![i] = w.l], path, content, mode, root, w.t,
                      i + 1, IF w.err # Nil THEN w.err ELSE lastErr,
                      [terr EXCEPT ![i] = w.err])
    ELSE WriteFrom(fss, path, content, mode, root, t, i + 1, lastErr,
                   [terr EXCEPT ![i] = Skipped])

(* the fan-out returning at the first tier whose write fails *)
ChainFSWrite0_StopAtFailure(fss, path, content, mode, root, t) ==
    LET r == WriteFrom(fss, path, content, mode, root, t, 0, Nil, NoTierErr)
        bad == {i \in Tiers : r.tierErr[i] \notin {Nil, NotTried, Skipped}}
    IN IF bad = {} THEN r
       ELSE LET f == CHOOSE i \in bad : \A j \in bad : i <= j
            IN [err |-> r.tierErr[f],
                fss |-> [i \in Tiers |-> IF i > f THEN fss[i] ELSE r.fss[i]],
                t |-> r.t,
                tierErr |-> [i \in Tiers |->
                               IF i > f THEN NotTried ELSE r.tierErr[i]]]

(* chain_fs.go: fan-out to every tier that supports updates *)
ChainFSWrite0(fss, path, content, mode, root, t) ==
    WriteFrom(fss, path, content, mode, root, t, 0, Nil, NoTierErr)

(* the revision with locking, after its IsLocked call has returned *)
ChainFSWrite(fss, path, content, mode, root, t) ==
    LET chk == ChainFSIsLocked(fss, path)
    IN IF chk.err = Nil /\ chk.locked
       THEN [err |-> ErrLocked, fss |-> fss, t |-> t, tierErr |-> NoTierErr]
       ELSE WriteFrom(fss, path, content, mode, root, t, 0, Nil, NoTierErr)

RECURSIVE DeleteFrom(_, _, _, _, _)
DeleteFrom(fss, path, i, lastErr, terr) ==
    IF i >= NTiers THEN [err |-> lastErr, fss |-> fss, tierErr |-> terr]
    ELSE IF fss[i].config.Features.CanDelete
    THEN LET d == LocalFSDelete(fss[i], path)
         IN DeleteFrom([fss EXCEPT ![i] = d.l], path, i + 1,
                       IF d.err # Nil THEN d.err ELSE lastErr,
                       [terr EXCEPT ![i] = d.err])
    ELSE DeleteFrom(fss, path, i + 1, lastErr, [terr EXCEPT ![i] = Skipped])

ChainFSDelete0(fss, path) == DeleteFrom(fss, path, 0, Nil, NoTierErr)

ChainFSDelete(fss, path) ==
    LET chk == ChainFSIsLocked(fss, path)
    IN IF chk.err = Nil /\ chk.locked
       THEN [err |-> ErrLocked, fss |-> fss, tierErr |-> NoTierErr]
       ELSE DeleteFrom(fss, path, 0, Nil, NoTierErr)

(* ------------------------------ config.go ------------------------------ *)
(* the validation loop over config.FileSystems from index i (position      *)
(* i + 1) on                                                               *)
RECURSIVE LockLoop(_, _)
LockLoop(config, i) ==
    IF i >= Len(config.FileSystems) THEN [err |-> Nil, config |-> config]
    ELSE IF config.FileSystems[i + 1].CanLock
    THEN IF i > 0
         THEN [err |-> "only the first filesystem in the chain can support locking",
               config |-> config]
         ELSE [err |-> Nil, config |-> [config EXCEPT !.HasLocking = TRUE]]
    ELSE LockLoop(config, i + 1)

(* LoadConfig after the file has been read and parsed *)
LoadConfig(config) ==
    IF config.Mount = ""
    THEN [err |-> "mount point is required", config |-> config]
    ELSE IF Len(config.FileSystems) = 0
    THEN [err |-> "at least one filesystem is required", config |-> config]
    ELSE LockLoop(IF config.ServerAddr = ""
                  THEN [config EXCEPT !.ServerAddr = ":8080"]
                  ELSE config, 0)

(* the Config a chain was built from *)
ChainConfig(fss) ==
    [Mount |-> "/mnt", ServerAddr |-> ":8080",
     FileSystems |-> [k \in 1 .. NTiers |->
                        [Role |-> fss[k - 1].config.Role,
                         CanUpdate |-> fss[k - 1].config.Features.CanUpdate,
                         CanLock |-> fss[k - 1].config.Features.CanLock]],
     HasLocking |-> \E i \in Tiers : fss[i].config.Features.CanLock]

(* ------------------------------- state --------------------------------- *)
VARIABLES
    filesystems,  \* ChainFS.filesystems: per tier config, root directory, cacheList, locks
    mutex,        \* ChainFS.mutex
    now,          \* the clock read by time.Now()
    isRoot,       \* the daemon runs with euid 0
    chainVer,     \* 1: chain_fs.go, 2: the revision with the lock table
    node,         \* FUSE File nodes: the FileInfo kept per looked-up path
    handles,      \* per path the pids whose acquire succeeded and who have not released
    yamlConfig,   \* the Config parsed from the YAML file, as LoadConfig holds it
    goroutines,   \* per HTTP handler goroutine: the engine call it is in and where
    fileHandles,  \* the FileHandle objects the adapter has handed to the kernel
    last          \* the most recent call and what it returned

vars == <<filesystems, mutex, now, isRoot, chainVer, node, handles, yamlConfig,
          goroutines, fileHandles, last>>

NoNode == [known |-> FALSE, Mode |-> 0, Size |-> 0]

Call(op, path, pid, lockType, content, mode, err, data, found, tierErr) ==
    [op |-> op, path |-> path, pid |-> pid, lockType |-> lockType,
     content |-> content, mode |-> mode, err |-> err, data |-> data,
     found |-> found, tierErr |-> tierErr]

(* the goroutines net/http runs the handlers on *)
Goroutines == {1, 2}

Idle ==
    [pc |-> "idle", op |-> "none", path |-> "", content |-> <<>>, i |-> 0,
     data |-> <<>>, err |-> Nil, found |-> -1]

NoCall == Call("none", "", 0, 0, <<>>, 0, Nil, <<>>, -1, NoTierErr)

(* ------------------ the engine's methods with their mutex --------------- *)
EngineInfo(fss, m, path) ==
    IF RLockWaits(m) THEN [err |-> Blocked, Size |-> 0, Mode |-> 0]
    ELSE ChainFSInfo(fss, path)

EngineIsLocked(fss, m, path) ==
    IF RLockWaits(m) THEN [locked |-> FALSE, lockType |-> 0, err |-> Blocked]
    ELSE ChainFSIsLocked(fss, path)

BlockedRead(fss, m, t) ==
    [err |-> Blocked, data |-> <<>>, fss |-> fss, t |-> t, found |-> -1,
     tierErr |-> NoTierErr, m |-> m]

WithMutex(r, m) == r @@ ("m" :> m)

(* Read takes the shared lock; the revision with locking takes it a second *)
(* time inside IsLocked                                                    *)
EngineRead(fss, m, path, root, t) ==
    IF RLockWaits(m) THEN BlockedRead(fss, m, t)
    ELSE IF chainVer = 1 THEN WithMutex(ChainFSRead0(fss, path, root, t), m)
    ELSE IF RLockWaits(RLock(m)) THEN BlockedRead(fss, RLock(m), t)
    ELSE WithMutex(ChainFSRead(fss, path, root, t), m)

BlockedWrite(fss, m, t) ==
    [err |-> Blocked, fss |-> fss, t |-> t, tierErr |-> NoTierErr, m |-> m]

(* Write takes the exclusive lock; the revision with locking then calls    *)
(* IsLocked, which asks for the shared lock of the same mutex              *)
EngineWrite(fss, m, path, content, mode, root, t) ==
    IF LockWaits(m) THEN BlockedWrite(fss, m, t)
    ELSE IF chainVer = 1
    THEN WithMutex(ChainFSWrite0(fss, path, content, mode, root, t), m)
    ELSE IF RLockWaits(Lock(m)) THEN BlockedWrite(fss, Lock(m), t)
    ELSE WithMutex(ChainFSWrite(fss, path, content, mode, root, t), m)

BlockedDelete(fss, m) ==
    [err |-> Blocked, fss |-> fss, tierErr |-> NoTierErr, m |-> m]

EngineDelete(fss, m, path) ==
    IF LockWaits(m) THEN BlockedDelete(fss, m)
    ELSE IF chainVer = 1 THEN WithMutex(ChainFSDelete0(fss, path), m)
    ELSE IF RLockWaits(Lock(m)) THEN BlockedDelete(fss, Lock(m))
    ELSE WithMutex(ChainFSDelete(fss, path), m)

(* ---------------------------- HTTP file server -------------------------- *)
(* handleRead: Info, then Read; any error becomes a non-200 answer *)
handleRead(fss, m, path, root, t) ==
    LET info == EngineInfo(fss, m, path)
    IN IF info.err # Nil
       THEN [status |-> info.err, Content |-> <<>>, fss |-> fss, t |-> t, m |-> m]
       ELSE LET r == EngineRead(fss, m, path, root, t)
            IN [status |-> r.err, Content |-> r.data, fss |-> r.fss,
                t |-> r.t, m |-> r.m]

handleWrite(fss, m, path, content, mode, root, t) ==
    EngineWrite(fss, m, path, content, mode, root, t)

(* ------------------------------ FUSE adapter ---------------------------- *)
(* the buffer FileHandle.Write sends back: content padded with zeros up to *)
(* the offset, extended to offset+len(data), data copied in at the offset  *)
(* the splice with the data appended instead of copied in at the offset *)
SpliceWrite_Append(content, offset, data) ==
    LET lead == IF offset > Len(content)
                THEN content \o [i \in 1 .. offset - Len(content) |-> 0]
                ELSE content
    IN lead \o data

SpliceWrite(content, offset, data) ==
    LET writeEnd == offset + Len(data)
        size == IF writeEnd > Len(content) THEN writeEnd ELSE Len(content)
    IN [i \in 1 .. size |->
          IF i > offset /\ i <= writeEnd THEN data[i - offset]
          ELSE IF i <= Len(content) THEN content[i]
          ELSE 0]

(* ------------------------------- inputs --------------------------------- *)
Ones(n) == [i \in 1 .. n |-> 1]

(* a content that fits the cache budget twice over and one that exceeds it *)
SmallContent == <<1>>
BigContent == Ones(CacheMaxSize + 1)

WriteContents == {c \in {<<0>>, <<1, 0, 1>>, <<1, 1, 0, 1>>} : Len(c) <= MaxLen}
WriteData == {<<1>>}
Offsets == 0 .. (MaxLen - 1)

File(content, mode) == [exists |-> TRUE, content |-> content, mode |-> mode]

EmptyRoot == [p \in Paths |-> NoFile]

(* the directories the tiers are created over: the last tier is the main   *)
(* store, the first may hold an older copy left by an earlier run          *)
MainRoot ==
    [EmptyRoot EXCEPT !["a"] = File(SmallContent, 420),
                      !["b"] = File(BigContent, 420)]
FirstRoots == {EmptyRoot, [EmptyRoot EXCEPT !["a"] = File(<<0>>, 420)]}

Config(role, canUpdate, canDelete, canLock) ==
    [Role |-> role, MaxSize |-> IF role = RoleCache THEN CacheMaxSize ELSE 0,
     Features |-> [CanUpdate |-> canUpdate, CanDelete |-> canDelete,
                   CanLock |-> canLock]]

(* the first tier: the documented cache, a cache without locking, a        *)
(* read-only replica; the later tiers: main stores, writable or not        *)
FirstConfigs ==
    {Config(RoleCache, TRUE, TRUE, TRUE), Config(RoleCache, TRUE, TRUE, FALSE),
     Config(RoleMain, FALSE, TRUE, TRUE)}
OtherConfigs ==
    {Config(RoleMain, TRUE, TRUE, FALSE), Config(RoleMain, FALSE, TRUE, FALSE)}

(* NewLocalFS: empty cache list, empty lock map *)
NewLocalFS(config, root) ==
    [config |-> config, root |-> root, cacheList |-> <<>>,
     locks |-> [p \in DOMAIN root |-> NoLock]]

InitChain(firstConfigs) ==
    \E c0 \in firstConfigs, r0 \in FirstRoots :
    \E cs \in [Tiers \ {0} -> OtherConfigs] :
       filesystems =
         [i \in Tiers |->
            IF i = 0 THEN NewLocalFS(c0, IF NTiers = 1 THEN MainRoot ELSE r0)
            ELSE NewLocalFS(cs[i], IF i = NTiers - 1 THEN MainRoot ELSE EmptyRoot)]

InitRest ==
    /\ mutex = [writer |-> FALSE, pending |-> FALSE, readers |-> 0]
    /\ goroutines = [g \in Goroutines |-> Idle]
    /\ fileHandles = {}
    /\ now = 1
    /\ node = [p \in Paths |-> NoNode]
    /\ handles = [p \in Paths |-> {}]
    /\ last = NoCall

(* the engine revision with the lock table *)
Init ==
    /\ InitChain(FirstConfigs) /\ InitRest /\ chainVer = 2 /\ isRoot = FALSE
    /\ yamlConfig = ChainConfig(filesystems)

(* the engine revision of chain_fs.go: it never calls Lock, so whether a   *)
(* tier declares can_lock makes no difference to it                        *)
FirstConfigs0 == {c \in FirstConfigs : c.Features.CanLock}

Init0 ==
    /\ InitChain(FirstConfigs0) /\ InitRest /\ chainVer = 1 /\ isRoot \in BOOLEAN
    /\ yamlConfig = ChainConfig(filesystems)

(* ------------------------------- actions -------------------------------- *)
Step == now < MaxTime

(* ChainFS.Lock *)
DoLock(path, lockType, pid) ==
    /\ Step /\ chainVer = 2
    /\ \E r \in {IF RLockWaits(mutex) THEN [err |-> Blocked, fss |-> filesystems]
                 ELSE ChainFSLock(filesystems, path, lockType, pid, now)} :
          /\ filesystems' = r.fss
          /\ now' = IF r.fss # filesystems THEN now + 1 ELSE now
          /\ handles' = IF r.err = Nil
                        THEN [handles EXCEPT ![path] = @ \cup {pid}]
                        ELSE handles
          /\ last' = Call("Lock", path, pid, lockType, <<>>, 0, r.err, <<>>,
                          -1, NoTierErr)
    /\ UNCHANGED <<mutex, isRoot, chainVer, node, yamlConfig, goroutines,
                   fileHandles>>

(* ChainFS.Unlock *)
DoUnlock(path, pid) ==
    /\ Step /\ chainVer = 2
    /\ \E r \in {IF RLockWaits(mutex) THEN [err |-> Blocked, fss |-> filesystems]
                 ELSE ChainFSUnlock(filesystems, path, pid)} :
          /\ filesystems' = r.fss
          /\ handles' = IF r.err = Nil
                        THEN [handles EXCEPT ![path] = @ \ {pid}]
                        ELSE handles
          /\ last' = Call("Unlock", path, pid, 0, <<>>, 0, r.err, <<>>, -1,
                          NoTierErr)
    /\ UNCHANGED <<mutex, now, isRoot, chainVer, node, yamlConfig, goroutines,
                   fileHandles>>

(* ChainFS.Read *)
DoRead(path) ==
    /\ Step
    /\ \E r \in {EngineRead(filesystems, mutex, path, isRoot, now)} :
          /\ filesystems' = r.fss
          /\ now' = r.t
          /\ mutex' = r.m
          /\ last' = Call("Read", path, 0, 0, <<>>, 0, r.err, r.data, r.found,
                          r.tierErr)
    /\ UNCHANGED <<isRoot, chainVer, node, handles, yamlConfig, goroutines,
                   fileHandles>>

(* ChainFS.Write *)
DoWrite(path, content, mode) ==
    /\ Step
    /\ \E r \in {EngineWrite(filesystems, mutex, path, content, mode, isRoot, now)} :
          /\ filesystems' = r.fss
          /\ now' = r.t
          /\ mutex' = r.m
          /\ last' = Call("Write", path, 0, 0, content, mode, r.err, <<>>, -1,
                          r.tierErr)
    /\ UNCHANGED <<isRoot, chainVer, node, handles, yamlConfig, goroutines,
                   fileHandles>>

(* ChainFS.Delete *)
DoDelete(path) ==
    /\ Step
    /\ \E r \in {EngineDelete(filesystems, mutex, path)} :
          /\ filesystems' = r.fss
          /\ mutex' = r.m
          /\ last' = Call("Delete", path, 0, 0, <<>>, 0, r.err, <<>>, -1,
                          r.tierErr)
    /\ UNCHANGED <<now, isRoot, chainVer, node, handles, yamlConfig, goroutines,
                   fileHandles>>

(* Dir.Lookup: GET /info, the FileInfo is kept in the File node *)
Lookup(path) ==
    /\ Step
    /\ \E info \in {EngineInfo(filesystems, mutex, path)} :
          /\ node' = IF info.err = Nil
                     THEN [node EXCEPT ![path] =
                             [known |-> TRUE, Mode |-> info.Mode,
                              Size |-> info.Size]]
                     ELSE node
          /\ last' = Call("Lookup", path, 0, 0, <<>>, 0, info.err, <<>>, -1,
                          NoTierErr)
    /\ UNCHANGED <<filesystems, mutex, now, isRoot, chainVer, handles, yamlConfig,
                 goroutines, fileHandles>>

(* ChainFS.List *)
DoList(path) ==
    /\ Step
    /\ \E r \in {IF RLockWaits(mutex)
                 THEN [err |-> Blocked, files |-> <<>>, found |-> -1]
                 ELSE ListFrom(filesystems, path, 0, Nil)} :
          last' = Call("List", path, 0, 0, <<>>, 0, r.err, r.files, r.found,
                       NoTierErr)
    /\ UNCHANGED <<filesystems, mutex, now, isRoot, chainVer, node, handles,
                   yamlConfig, goroutines, fileHandles>>

(* FileHandle.Write: GET /read, splice, POST /write *)
HandleWrite(path, offset, data) ==
    /\ Step
    /\ node[path].known
    /\ offset + Len(data) <= MaxLen
    /\ \E rd \in {handleRead(filesystems, mutex, path, isRoot, now)} :
          IF rd.status # Nil
          THEN /\ filesystems' = rd.fss
               /\ now' = rd.t
               /\ mutex' = rd.m
               /\ node' = node
               /\ last' = Call("HandleWrite", path, SelfPid, offset, data,
                               node[path].Mode,
                               IF rd.status = Blocked THEN Blocked ELSE ErrHTTP,
                               <<>>, -1, NoTierErr)
          ELSE \E buf \in {SpliceWrite(rd.Content, offset, data)} :
               \E wr \in {handleWrite(rd.fss, rd.m, path, buf, node[path].Mode,
                                      isRoot, rd.t)} :
                  /\ filesystems' = wr.fss
                  /\ now' = wr.t
                  /\ mutex' = wr.m
                  /\ node' = IF wr.err = Nil
                             THEN [node EXCEPT ![path].Size = offset + Len(data)]
                             ELSE node
                  /\ last' = Call("HandleWrite", path, SelfPid, offset, data,
                                  node[path].Mode, wr.err, buf, -1, wr.tierErr)
    /\ UNCHANGED <<isRoot, chainVer, handles, yamlConfig, goroutines, fileHandles>>

Next ==
    \/ \E p \in Paths, lt \in LockTypes, pid \in Pids : DoLock(p, lt, pid)
    \/ \E p \in Paths, pid \in Pids : DoUnlock(p, pid)
    \/ \E p \in Paths : DoRead(p)
    \/ \E p \in Paths : DoWrite(p, <<0, 1>>, 420)
    \/ \E p \in Paths : DoDelete(p)

Spec == Init /\ [][Next]_vars

Next0 ==
    \/ \E p \in Paths : DoRead(p)
    \/ \E p \in Paths, c \in WriteContents, m \in Modes : DoWrite(p, c, m)
    \/ \E p \in Paths : DoDelete(p)

Spec0 == Init0 /\ [][Next0]_vars

(* ======================= properties of the program ====================== *)
LockTier == findFirstLockableFS(filesystems)
LockTable == [i \in Tiers |-> filesystems[i].locks]

(* the lock record of a path in the table of the first lock-capable tier *)
LockRecord(path) ==
    IF LockTier < 0 THEN NoLock ELSE filesystems[LockTier].locks[path]

CacheTiers == {i \in Tiers : filesystems[i].config.Role = RoleCache}

(* a call of the given method has just returned (it did not block forever) *)
Returned(op) == last'.op = op /\ last'.err # Blocked

(* C1: on every cache tier the sizes of the cache entries sum to at most   *)
(* the tier's MaxSize, after any sequence of engine reads and writes.      *)
C1_CacheBudget ==
    \A i \in CacheTiers :
        SumSizes(filesystems[i].cacheList) <= filesystems[i].config.MaxSize

(* C2: the lock table is a map with one record per path; while the record  *)
(* of a path has type Write or Exclusive, every acquire on that path that  *)
(* returns, whatever its type and pid, fails and leaves the lock tables    *)
(* unchanged.                                                              *)
C2_WriteExclusiveExcludes ==
    [][ (Returned("Lock") /\ LockRecord(last'.path).held
         /\ LockRecord(last'.path).LockType \in {WriteLock, ExclusiveLock})
        => (last'.err # Nil /\ LockTable' = LockTable) ]_vars

C2_Witness ==
    /\ last.op = "Lock" /\ last.err = ErrLocked
    /\ LockRecord(last.path).held
    /\ LockRecord(last.path).LockType \in {WriteLock, ExclusiveLock}

(* C3: while the record of a path has type Read, a further Read acquire by *)
(* any pid succeeds and leaves the record unchanged, and a Write or        *)
(* Exclusive acquire fails with Busy.                                      *)
C3_ReadCoalescing ==
    [][ (Returned("Lock") /\ LockRecord(last'.path).held
         /\ LockRecord(last'.path).LockType = ReadLock)
        => /\ LockTable' = LockTable
           /\ last'.lockType = ReadLock => last'.err = Nil
           /\ last'.lockType # ReadLock => last'.err = ErrLocked ]_vars

(* C4 as claimed: an acquire on a path without a lock record succeeds and  *)
(* creates the record, with no other precondition.                         *)
C4_AcquireUnlockedAlwaysSucceeds ==
    [][ (Returned("Lock") /\ ~LockRecord(last'.path).held)
        => last'.err = Nil ]_vars

(* C4 amended: an acquire on a path without a lock record succeeds exactly *)
(* when the chain has a lock-capable tier and the path exists in that      *)
(* tier's directory; it then creates one record with the requested type,   *)
(* the pid and the current time and changes no other record; otherwise it  *)
(* fails and changes nothing.                                              *)
C4_AcquireUnlocked ==
    [][ (Returned("Lock") /\ ~LockRecord(last'.path).held)
        => IF LockTier >= 0 /\ filesystems[LockTier].root[last'.path].exists
           THEN /\ last'.err = Nil
                /\ LockTable' =
                     [LockTable EXCEPT ![LockTier][last'.path] =
                        [held |-> TRUE, LockType |-> last'.lockType,
                         ProcessID |-> last'.pid, CreatedAt |-> now]]
           ELSE last'.err # Nil /\ LockTable' = LockTable ]_vars

C4_Witness ==
    /\ last.op = "Lock" /\ last.err = Nil
    /\ LockRecord(last.path).held
    /\ LockRecord(last.path).ProcessID = last.pid
    /\ LockRecord(last.path).LockType = last.lockType
    /\ LockRecord(last.path).CreatedAt = now - 1

(* C5: with a lock table, release(path, p) succeeds, removing the record,  *)
(* only if a record for the path exists and its pid is p; without a record *)
(* it fails NotLocked, with a record of another pid it fails NotOwner, and *)
(* both failures leave the lock tables unchanged.                          *)
C5_ReleaseByOwner ==
    [][ (Returned("Unlock") /\ LockTier >= 0)
        => LET rec == LockRecord(last'.path)
           IN IF ~rec.held
              THEN last'.err = ErrNotLocked /\ LockTable' = LockTable
              ELSE IF rec.ProcessID # last'.pid
              THEN last'.err = ErrNotOwner /\ LockTable' = LockTable
              ELSE /\ last'.err = Nil
                   /\ LockTable' = [LockTable EXCEPT ![LockTier][last'.path] = NoLock]
      ]_vars

C5_Witness ==
    /\ last.op = "Unlock" /\ last.err = ErrNotOwner
    /\ LockRecord(last.path).held
    /\ LockRecord(last.path).ProcessID # last.pid

(* C6: after read-only opens of a path by pid 1 and by pid 2 have both     *)
(* succeeded, an engine write to the path fails Busy, the release of each  *)
(* reader succeeds, and a write issued after both releases succeeds.       *)
C6_ReadersThenWrite ==
    [][ /\ (last'.op = "Write" /\ handles[last'.path] = Pids
            /\ LockRecord(last'.path).LockType = ReadLock)
           => last'.err = ErrLocked
        /\ (last'.op = "Unlock" /\ last'.pid \in handles[last'.path]
            /\ LockRecord(last'.path).LockType = ReadLock)
           => last'.err = Nil
        /\ (last'.op = "Write" /\ last.op = "Unlock" /\ last.err = Nil
            /\ last'.path = last.path /\ handles[last'.path] = {})
           => last'.err = Nil ]_vars

(* C7: a handle holding a Write or Exclusive lock record on its path, with *)
(* the adapter's own pid, can write through the handle: the write succeeds *)
(* and every tier that takes updates then holds the spliced content.       *)
C7_LockedHandleWrites ==
    [][ (last'.op = "HandleWrite" /\ LockRecord(last'.path).held
         /\ LockRecord(last'.path).ProcessID = SelfPid
         /\ LockRecord(last'.path).LockType \in {WriteLock, ExclusiveLock})
        => /\ last'.err = Nil
           /\ \A i \in Tiers :
                filesystems[i].config.Features.CanUpdate
                => filesystems'[i].root[last'.path].content = last'.data ]_vars

(* a direct read of the path on tier i, as LocalFS.Read answers it *)
DirectRead(i, path) == LocalFSRead(filesystems[i], path, isRoot, now)

CanUpdate(i) == filesystems[i].config.Features.CanUpdate

(* C8 as claimed: when an engine Read resolved at tier k, every tier below *)
(* k that takes updates returns the returned content on a direct read.     *)
C8_BackPropagationAlways ==
    (last.op = "Read" /\ last.err = Nil)
    => \A i \in Tiers :
         (i < last.found /\ CanUpdate(i))
         => /\ DirectRead(i, last.path).err = Nil
            /\ DirectRead(i, last.path).data = last.data

(* C8 amended: when an engine Read resolved at tier k, a write of the      *)
(* returned content was attempted on every tier below k that takes         *)
(* updates and on no other tier, and each of those tiers whose write did   *)
(* not fail returns the returned content on a direct read.                 *)
C8_BackPropagation ==
    (last.op = "Read" /\ last.err = Nil)
    => \A i \in Tiers :
         /\ (i < last.found /\ CanUpdate(i))
            => /\ last.tierErr[i] \notin {NotTried, Skipped}
               /\ last.tierErr[i] = Nil
                  => /\ DirectRead(i, last.path).err = Nil
                     /\ DirectRead(i, last.path).data = last.data
         /\ (i >= last.found \/ ~CanUpdate(i))
            => last.tierErr[i] \in {NotTried, Skipped}

C8_Witness ==
    /\ last.op = "Read" /\ last.err = Nil /\ last.found = NTiers - 1
    /\ last.found > 0
    /\ \E i \in Tiers :
         /\ i < last.found /\ CanUpdate(i) /\ last.tierErr[i] = Nil
         /\ DirectRead(i, last.path).data = last.data
    /\ Len(last.data) > 0

(* C9 as claimed: after an engine write(p, v) has returned, every tier     *)
(* that takes updates and whose write did not fail returns v on a direct   *)
(* read of p, and no tier that takes no updates was modified.              *)
C9_WriteFanOutReadable ==
    [][ Returned("Write")
        => \A i \in Tiers :
             /\ (CanUpdate(i) /\ last'.tierErr[i] = Nil)
                => /\ LocalFSRead(filesystems'[i], last'.path, isRoot,
                                   now').err = Nil
                   /\ LocalFSRead(filesystems'[i], last'.path, isRoot,
                                   now').data = last'.content
             /\ ~CanUpdate(i) => filesystems'[i] = filesystems[i] ]_vars

(* C9 amended: after an engine write(p, v, mode) has returned, every tier  *)
(* that takes updates and whose write did not fail stores p with exactly   *)
(* the bytes v and the mode written, and returns v on a direct read when   *)
(* that mode grants the owner read access or the daemon runs as root; no   *)
(* tier that takes no updates was modified.                                *)
C9_WriteFanOut ==
    [][ Returned("Write")
        => \A i \in Tiers :
             /\ (CanUpdate(i) /\ last'.tierErr[i] = Nil)
                => /\ filesystems'[i].root[last'.path]
                        = File(last'.content, last'.mode)
                   /\ (isRoot \/ Bit(last'.mode, 8) = 1)
                      => /\ LocalFSRead(filesystems'[i], last'.path, isRoot,
                                         now').err = Nil
                         /\ LocalFSRead(filesystems'[i], last'.path, isRoot,
                                         now').data = last'.content
             /\ ~CanUpdate(i) => filesystems'[i] = filesystems[i] ]_vars

C9_Witness ==
    /\ last.op = "Write" /\ last.err = Nil
    /\ \E i \in Tiers : CanUpdate(i) /\ last.tierErr[i] = Nil
                        /\ DirectRead(i, last.path).data = last.content
    /\ \E i \in Tiers : ~CanUpdate(i) /\ last.tierErr[i] = Skipped
                        /\ filesystems[i].root[last.path].content # last.content

(* C10: an engine write followed, with no operation in between, by an      *)
(* engine read of the same path returns exactly the written bytes, and the *)
(* stored mode's low nine bits equal the written mode.                     *)
C10_WriteReadRoundTrip ==
    [][ (last.op = "Write" /\ last'.op = "Read" /\ last'.path = last.path)
        => /\ last'.err = Nil
           /\ last'.data = last.content
           /\ ChainFSInfo(filesystems', last'.path).Mode % 512
                = last.mode % 512 ]_vars

(* ----------------- a cache in front of three files ---------------------- *)
(* the chain_fs.go engine over a cache tier without locking and main       *)
(* stores whose last one holds three one-byte files: the cache budget has  *)
(* room for some of them but not for all                                   *)
CachePaths == {"a", "b", "c"}

CacheRoot(exists) ==
    [p \in CachePaths |-> IF exists THEN File(SmallContent, 420) ELSE NoFile]

InitLRU ==
    /\ \E cs \in [Tiers \ {0} -> OtherConfigs] :
         filesystems =
           [i \in Tiers |->
              IF i = 0 /\ NTiers > 1
              THEN NewLocalFS(Config(RoleCache, TRUE, TRUE, FALSE),
                              CacheRoot(FALSE))
              ELSE NewLocalFS(cs[i], CacheRoot(i = NTiers - 1))]
    /\ InitRest /\ chainVer = 1 /\ isRoot = FALSE
    /\ yamlConfig = ChainConfig(filesystems)

NextLRU ==
    \/ \E p \in CachePaths : DoRead(p)
    \/ \E p \in CachePaths, c \in WriteContents : DoWrite(p, c, 420)
    \/ \E p \in CachePaths : DoDelete(p)

SpecLRU == InitLRU /\ [][NextLRU]_vars

(* entry k of the list was used before entry j; with equal times the one   *)
(* earlier in the list counts as used first                                *)
UsedBefore(list, k, j) ==
    \/ list[k].LastUsed < list[j].LastUsed
    \/ list[k].LastUsed = list[j].LastUsed /\ k < j

(* the entries of tier i that the step removed from the cache list, the    *)
(* entry of the path being stored aside                                    *)
Evicted(i) ==
    {k \in 1 .. Len(filesystems[i].cacheList) :
        /\ filesystems[i].cacheList[k].Path # last'.path
        /\ \A j \in 1 .. Len(filesystems'[i].cacheList) :
              filesystems'[i].cacheList[j].Path # filesystems[i].cacheList[k].Path}

(* total size of the entries from position j on that were used before entry k *)
RECURSIVE SizeUsedBefore(_, _, _)
SizeUsedBefore(list, k, j) ==
    IF j > Len(list) THEN 0
    ELSE (IF j # k /\ UsedBefore(list, j, k) THEN list[j].Size ELSE 0)
         + SizeUsedBefore(list, k, j + 1)

(* C11: when storing a file of size n on a cache tier would take the sum   *)
(* of the entry sizes over MaxSize, entries are evicted in ascending order *)
(* of last_used (ties: earliest list position) and only as long as the sum *)
(* plus n exceeds MaxSize; the entry of a path read or written on the tier *)
(* carries the time of that read or write.                                 *)
C11_LRUEviction ==
    [][ (Returned("Read") \/ Returned("Write"))
        => \A i \in CacheTiers :
             LET list == filesystems[i].cacheList
                 max == filesystems[i].config.MaxSize
                 StoredSize == IF last'.op = "Write" THEN Len(last'.content)
                               ELSE Len(last'.data)
             IN /\ \A k \in Evicted(i) :
                     /\ \A j \in 1 .. Len(list) :
                          (j \notin Evicted(i) /\ list[j].Path # last'.path)
                          => UsedBefore(list, k, j)
                     /\ SumSizes(list) - SizeUsedBefore(list, k, 1) + StoredSize > max
                /\ (last'.tierErr[i] \in {Nil, ErrPermission}
                    /\ SumSizes(list) + StoredSize > max)
                   => \A k \in 1 .. Len(list) :
                        (\A j \in 1 .. Len(list) : j # k => UsedBefore(list, k, j))
                        => (k \in Evicted(i) \/ list[k].Path = last'.path)
                /\ last'.tierErr[i] \in {NotTried, Skipped} => Evicted(i) = {}
                /\ (last'.tierErr[i] = Nil
                    \/ (last'.op = "Read" /\ last'.found = i))
                   => \E j \in 1 .. Len(filesystems'[i].cacheList) :
                        /\ filesystems'[i].cacheList[j].Path = last'.path
                        /\ filesystems'[i].cacheList[j].LastUsed >= now
                        /\ filesystems'[i].cacheList[j].LastUsed < now' ]_vars

(* the read of "c" through a full cache: "b", used first, is gone from the *)
(* cache tier while "a", touched after it, stayed                          *)
C11_Witness ==
    /\ NTiers > 1 /\ last.op = "Read" /\ last.path = "c" /\ last.err = Nil
    /\ last.found = NTiers - 1 /\ last.tierErr[0] = Nil
    /\ Len(filesystems[0].cacheList) = 2
    /\ filesystems[0].cacheList[1].Path = "a"
    /\ filesystems[0].cacheList[1].LastUsed = 3
    /\ filesystems[0].cacheList[2].Path = "c"
    /\ filesystems[0].cacheList[2].LastUsed = 4
    /\ ~filesystems[0].root["b"].exists
    /\ filesystems[0].root["a"].exists

(* C12: an engine Read of a path whose lock record has type Write or       *)
(* Exclusive fails with Busy and changes no tier (no back-propagation, no  *)
(* cache entry, no last_used); a Read of an unlocked or Read-locked path   *)
(* is not rejected: it returns the content of the first tier that holds    *)
(* the path readably.                                                      *)
C12_ReadLockCheck ==
    [][ Returned("Read")
        => LET rec == LockRecord(last'.path)
               holders == {i \in Tiers :
                             /\ filesystems[i].root[last'.path].exists
                             /\ MayRead(filesystems[i].root[last'.path], isRoot)}
           IN IF rec.held /\ rec.LockType \in {WriteLock, ExclusiveLock}
              THEN /\ last'.err = ErrLocked
                   /\ filesystems' = filesystems /\ now' = now
              ELSE /\ last'.err # ErrLocked
                   /\ holders # {}
                      => /\ last'.err = Nil
                         /\ last'.found \in holders
                         /\ \A j \in holders : last'.found <= j
                         /\ last'.data
                              = filesystems[last'.found].root[last'.path].content
      ]_vars

C12_Witness ==
    /\ last.op = "Read" /\ last.err = ErrLocked
    /\ LockRecord(last.path).held
    /\ LockRecord(last.path).LockType = ExclusiveLock
    /\ \E i \in Tiers : filesystems[i].root[last.path].exists

(* C13: an engine Write to a path that has a lock record of any type and   *)
(* owner fails with Busy and leaves the files and the cache entries of     *)
(* every tier unchanged.                                                   *)
C13_WriteLockedBusy ==
    [][ (last'.op = "Write" /\ LockRecord(last'.path).held)
        => (last'.err = ErrLocked /\ filesystems' = filesystems) ]_vars

(* C14: an engine Delete of a path that has a lock record fails with Busy  *)
(* and removes the path from no tier; on an unlocked path delete is        *)
(* invoked on every tier with can_delete and on no other, failures do not  *)
(* stop the fan-out, and the error of the last failing tier is returned.   *)
C14_DeleteLockedBusy ==
    [][ last'.op = "Delete"
        => IF LockRecord(last'.path).held
           THEN last'.err = ErrLocked /\ filesystems' = filesystems
           ELSE LET failed == {i \in Tiers : last'.tierErr[i]
                                 \notin {Nil, NotTried, Skipped}}
                IN /\ \A i \in Tiers :
                        IF filesystems[i].config.Features.CanDelete
                        THEN /\ last'.tierErr[i] \notin {NotTried, Skipped}
                             /\ ~filesystems'[i].root[last'.path].exists
                        ELSE filesystems'[i] = filesystems[i]
                   /\ failed = {} => last'.err = Nil
                   /\ failed # {}
                      => \E i \in failed : /\ \A j \in failed : j <= i
                                           /\ last'.err = last'.tierErr[i]
      ]_vars

(* --------------------------- start-up from YAML ------------------------- *)
(* the parsed documents LoadConfig may be given: with or without a mount   *)
(* point and server address, any number of tiers with any capabilities     *)
FSConfigs ==
    [Role : {RoleCache, RoleMain}, CanUpdate : BOOLEAN, CanLock : BOOLEAN]

YamlConfigs ==
    {[Mount |-> m, ServerAddr |-> a, FileSystems |-> f, HasLocking |-> FALSE] :
        m \in {"", "/mnt"}, a \in {"", ":9000"},
        f \in UNION {[1 .. n -> FSConfigs] : n \in 0 .. NTiers + 1}}

InitConfig ==
    /\ yamlConfig \in YamlConfigs
    /\ filesystems = <<>>
    /\ InitRest /\ chainVer = 2 /\ isRoot = FALSE

(* main: config, err := LoadConfig(configPath); a failure ends the program *)
DoLoadConfig ==
    /\ last.op = "none"
    /\ \E r \in {LoadConfig(yamlConfig)} :
          /\ yamlConfig' = r.config
          /\ last' = Call("LoadConfig", "", 0, 0, <<>>, 0, r.err, <<>>, -1,
                          NoTierErr)
    /\ UNCHANGED <<filesystems, mutex, now, isRoot, chainVer, node, handles,
                 goroutines, fileHandles>>

(* main: createFileSystems(config) and NewChainFS over the tiers *)
DoCreateFileSystems ==
    /\ last.op = "LoadConfig" /\ last.err = Nil
    /\ filesystems' =
         [i \in 0 .. Len(yamlConfig.FileSystems) - 1 |->
            NewLocalFS(Config(yamlConfig.FileSystems[i + 1].Role,
                              yamlConfig.FileSystems[i + 1].CanUpdate, TRUE,
                              yamlConfig.FileSystems[i + 1].CanLock),
                       EmptyRoot)]
    /\ last' = Call("createFileSystems", "", 0, 0, <<>>, 0, Nil, <<>>, -1,
                    NoTierErr)
    /\ UNCHANGED <<mutex, now, isRoot, chainVer, node, handles, yamlConfig, goroutines,
                   fileHandles>>

NextConfig == DoLoadConfig \/ DoCreateFileSystems

SpecConfig == InitConfig /\ [][NextConfig]_vars

(* C15: no accepted configuration has can_lock on a tier at index 1 or     *)
(* above, and none has zero tiers; so no chain built from an accepted      *)
(* configuration has a lock-capable tier other than tier 0.                *)
C15_OnlyFirstTierLocks ==
    /\ (last.op = "LoadConfig" /\ last.err = Nil)
       => /\ Len(yamlConfig.FileSystems) > 0
          /\ \A k \in 2 .. Len(yamlConfig.FileSystems) :
               ~yamlConfig.FileSystems[k].CanLock
    /\ last.op = "createFileSystems"
       => \A i \in DOMAIN filesystems :
            i >= 1 => ~filesystems[i].config.Features.CanLock

(* ---------------- engine calls running on two goroutines ---------------- *)
(* each step below is one stretch of a ChainFS method between two points   *)
(* where the goroutine can be overtaken: the mutex calls and the calls of  *)
(* the tiers                                                               *)
SetG(g, rec) == goroutines' = [goroutines EXCEPT ![g] = rec]

(* a handler calls Read, Info, Write or Delete of the engine *)
Begin(g, op, path, content) ==
    /\ Step
    /\ goroutines[g].pc = "idle"
    /\ SetG(g, [Idle EXCEPT !.pc = "lock", !.op = op, !.path = path,
                            !.content = content])
    /\ UNCHANGED <<filesystems, mutex, now, isRoot, chainVer, node, handles,
                   yamlConfig, last, fileHandles>>

(* c.mutex.RLock() of Read and Info *)
AcquireShared(g) ==
    /\ goroutines[g].pc = "lock" /\ goroutines[g].op \in {"Read", "Info"}
    /\ ~RLockWaits(mutex)
    /\ mutex' = RLock(mutex)
    /\ SetG(g, [goroutines[g] EXCEPT !.pc =
                  IF chainVer = 2 /\ goroutines[g].op = "Read"
                  THEN "islocked" ELSE "walk"])
    /\ UNCHANGED <<filesystems, now, isRoot, chainVer, node, handles,
                   yamlConfig, last, fileHandles>>

(* c.mutex.Lock() of Write and Delete: the writer announces itself, which  *)
(* holds back new readers                                                  *)
Announce(g) ==
    /\ goroutines[g].pc = "lock" /\ goroutines[g].op \in {"Write", "Delete"}
    /\ ~mutex.writer /\ ~mutex.pending
    /\ mutex' = [mutex EXCEPT !.pending = TRUE]
    /\ SetG(g, [goroutines[g] EXCEPT !.pc = "pending"])
    /\ UNCHANGED <<filesystems, now, isRoot, chainVer, node, handles,
                   yamlConfig, last, fileHandles>>

(* c.mutex.Lock() returns once the readers have left *)
AcquireExclusive(g) ==
    /\ goroutines[g].pc = "pending"
    /\ ~LockWaits(mutex)
    /\ mutex' = [Lock(mutex) EXCEPT !.pending = FALSE]
    /\ SetG(g, [goroutines[g] EXCEPT !.pc =
                  IF chainVer = 2 THEN "islocked" ELSE "fanout"])
    /\ UNCHANGED <<filesystems, now, isRoot, chainVer, node, handles,
                   yamlConfig, last, fileHandles>>

(* the c.IsLocked call of the revision with the lock table: RLock, look    *)
(* the path up, RUnlock                                                    *)
IsLockedStep(g) ==
    /\ goroutines[g].pc = "islocked"
    /\ ~RLockWaits(mutex)
    /\ \E chk \in {ChainFSIsLocked(filesystems, goroutines[g].path)} :
          SetG(g, IF chk.err = Nil /\ chk.locked
                     /\ (goroutines[g].op = "Read"
                         => chk.lockType \in {WriteLock, ExclusiveLock})
                  THEN [goroutines[g] EXCEPT !.pc = "unlock", !.err = ErrLocked]
                  ELSE [goroutines[g] EXCEPT !.pc =
                          IF goroutines[g].op = "Read" THEN "walk" ELSE "fanout"])
    /\ UNCHANGED <<filesystems, mutex, now, isRoot, chainVer, node, handles,
                   yamlConfig, last, fileHandles>>

(* one round of the tier loop of Read or Info *)
WalkStep(g) ==
    /\ goroutines[g].pc = "walk"
    /\ \E th \in {goroutines[g]} :
       \E r \in {IF th.op = "Read"
                 THEN LocalFSRead(filesystems[th.i], th.path, isRoot, now)
                 ELSE [err |-> LocalFSInfo(filesystems[th.i], th.path).err,
                       data |-> <<>>, l |-> filesystems[th.i], t |-> now]} :
          /\ filesystems' = [filesystems EXCEPT ![th.i] = r.l]
          /\ now' = r.t
          /\ SetG(g, IF r.err = Nil
                     THEN [th EXCEPT !.data = r.data, !.found = th.i, !.err = Nil,
                                     !.i = th.i - 1,
                                     !.pc = IF th.op = "Read" /\ th.i > 0
                                            THEN "prop" ELSE "unlock"]
                     ELSE [th EXCEPT !.err = r.err, !.i = th.i + 1,
                                     !.pc = IF th.i + 1 >= NTiers
                                            THEN "unlock" ELSE "walk"])
    /\ UNCHANGED <<mutex, isRoot, chainVer, node, handles, yamlConfig, last,
                   fileHandles>>

(* one round of the loop of propagateContent *)
PropStep(g) ==
    /\ goroutines[g].pc = "prop"
    /\ \E th \in {goroutines[g]} :
       \E w \in {IF filesystems[th.i].config.Features.CanUpdate
                 THEN LocalFSWrite(filesystems[th.i], th.path, th.data,
                                   PropagateMode, isRoot, now)
                 ELSE [err |-> Skipped, l |-> filesystems[th.i], t |-> now]} :
          /\ filesystems' = [filesystems EXCEPT ![th.i] = w.l]
          /\ now' = w.t
          /\ SetG(g, [th EXCEPT !.i = th.i - 1,
                                !.pc = IF th.i = 0 THEN "unlock" ELSE "prop"])
    /\ UNCHANGED <<mutex, isRoot, chainVer, node, handles, yamlConfig, last,
                   fileHandles>>

(* one round of the fan-out loop of Write or Delete *)
FanOutStep(g) ==
    /\ goroutines[g].pc = "fanout"
    /\ \E th \in {goroutines[g]} :
       \E w \in {IF th.op = "Write"
                 THEN IF filesystems[th.i].config.Features.CanUpdate
                      THEN LocalFSWrite(filesystems[th.i], th.path, th.content,
                                        420, isRoot, now)
                      ELSE [err |-> Nil, l |-> filesystems[th.i], t |-> now]
                 ELSE IF filesystems[th.i].config.Features.CanDelete
                      THEN LocalFSDelete(filesystems[th.i], th.path)
                             @@ ("t" :> now)
                      ELSE [err |-> Nil, l |-> filesystems[th.i], t |-> now]} :
          /\ filesystems' = [filesystems EXCEPT ![th.i] = w.l]
          /\ now' = w.t
          /\ SetG(g, [th EXCEPT !.err = IF w.err # Nil THEN w.err ELSE th.err,
                                !.i = th.i + 1,
                                !.pc = IF th.i + 1 >= NTiers
                                       THEN "unlock" ELSE "fanout"])
    /\ UNCHANGED <<mutex, isRoot, chainVer, node, handles, yamlConfig, last,
                   fileHandles>>

(* the deferred RUnlock or Unlock; the method returns *)
Release(g) ==
    /\ goroutines[g].pc = "unlock"
    /\ mutex' = IF goroutines[g].op \in {"Read", "Info"} THEN RUnlock(mutex)
                ELSE Unlock(mutex)
    /\ SetG(g, Idle)
    /\ last' = Call(goroutines[g].op, goroutines[g].path, g, 0,
                    goroutines[g].content, 420, goroutines[g].err,
                    goroutines[g].data, goroutines[g].found, NoTierErr)
    /\ UNCHANGED <<filesystems, now, isRoot, chainVer, node, handles,
                   yamlConfig, fileHandles>>

(* both engine revisions over the documented chain: a cache with the lock *)
(* table in front of main stores                                           *)
InitConc ==
    /\ \E cs \in [Tiers \ {0} -> OtherConfigs] :
         filesystems =
           [i \in Tiers |->
              IF i = 0 /\ NTiers > 1
              THEN NewLocalFS(Config(RoleCache, TRUE, TRUE, TRUE), EmptyRoot)
              ELSE NewLocalFS(cs[i], IF i = NTiers - 1 THEN MainRoot
                                     ELSE EmptyRoot)]
    /\ InitRest /\ chainVer \in {1, 2} /\ isRoot = FALSE
    /\ yamlConfig = ChainConfig(filesystems)

(* the requests all name one file: the calls contend for the engine mutex  *)
(* whatever their paths                                                    *)
NextConc ==
    \E g \in Goroutines :
       \/ Begin(g, "Read", "a", <<>>)
       \/ Begin(g, "Info", "a", <<>>)
       \/ Begin(g, "Write", "a", <<0>>)
       \/ Begin(g, "Delete", "a", <<>>)
       \/ AcquireShared(g) \/ Announce(g) \/ AcquireExclusive(g)
       \/ IsLockedStep(g) \/ WalkStep(g) \/ PropStep(g) \/ FanOutStep(g)
       \/ Release(g)

SpecConc == InitConc /\ [][NextConc]_vars

(* C16: no two engine Write or Delete calls are in their tier fan-out at   *)
(* the same time, and no engine Read or Info is walking the tiers or       *)
(* back-propagating while a Write or Delete is in its fan-out.             *)
C16_WritersExclusive ==
    \A g, h \in Goroutines :
        (g # h /\ goroutines[g].pc = "fanout")
        => goroutines[h].pc \notin {"fanout", "walk", "prop"}

(* a Write is past the first tier of its fan-out while a Read waits for    *)
(* the mutex                                                               *)
C16_Witness ==
    \E g, h \in Goroutines :
        /\ goroutines[g].pc = "fanout" /\ goroutines[g].op = "Write"
        /\ goroutines[g].i = 1
        /\ goroutines[h].pc = "lock" /\ goroutines[h].op = "Read"

(* ------------------ the adapter's open, create, release ----------------- *)
(* the patterns startFileServer registers with the default ServeMux; a     *)
(* request for any other path is answered 404 by net/http                  *)
Routes == {"/info", "/list", "/read", "/write"}

EACCES == "EACCES"
EIO == "EIO"

OpenFlags == {"O_RDONLY", "O_WRONLY", "O_RDWR"}

(* the lock type File.Open and Dir.Create derive from the open flags *)
FlagsLockType(flags) ==
    IF flags = "O_RDONLY" THEN ReadLock
    ELSE IF flags = "O_WRONLY" THEN WriteLock
    ELSE ExclusiveLock

(* File.Open: POST /lock; any status but 200 is EACCES and no handle *)
Open(path, flags) ==
    /\ Step
    /\ node[path].known
    /\ \E err \in {IF "/lock" \in Routes THEN Nil ELSE EACCES} :
          /\ fileHandles' = IF err = Nil
                            THEN fileHandles \cup
                                   {[path |-> path, lockType |-> FlagsLockType(flags)]}
                            ELSE fileHandles
          /\ last' = Call("Open", path, SelfPid, FlagsLockType(flags), <<>>, 0,
                          err, <<>>, -1, NoTierErr)
    /\ UNCHANGED <<filesystems, mutex, now, isRoot, chainVer, node, handles,
                   yamlConfig, goroutines>>

(* Dir.Create: POST /write with empty content and the requested mode, then *)
(* the File node and the FileHandle are built                              *)
Create(path, flags, mode) ==
    /\ Step
    /\ ChainFSInfo(filesystems, path).err # Nil
    /\ \E wr \in {handleWrite(filesystems, mutex, path, <<>>, mode, isRoot, now)} :
          /\ filesystems' = wr.fss
          /\ now' = wr.t
          /\ mutex' = wr.m
          /\ node' = IF wr.err = Nil
                     THEN [node EXCEPT ![path] =
                             [known |-> TRUE, Mode |-> mode, Size |-> 0]]
                     ELSE node
          /\ fileHandles' = IF wr.err = Nil
                            THEN fileHandles \cup
                                   {[path |-> path, lockType |-> FlagsLockType(flags)]}
                            ELSE fileHandles
          /\ last' = Call("Create", path, SelfPid, FlagsLockType(flags), <<>>,
                          mode,
                          IF wr.err \in {Nil, Blocked} THEN wr.err ELSE EIO,
                          <<>>, -1, wr.tierErr)
    /\ UNCHANGED <<isRoot, chainVer, handles, yamlConfig, goroutines>>

(* FileHandle.Release: POST /unlock; the kernel drops the handle whatever  *)
(* the answer                                                              *)
ReleaseHandle(h) ==
    /\ Step
    /\ h \in fileHandles
    /\ fileHandles' = fileHandles \ {h}
    /\ last' = Call("Release", h.path, SelfPid, h.lockType, <<>>, 0,
                    IF "/unlock" \in Routes THEN Nil ELSE EACCES,
                    <<>>, -1, NoTierErr)
    /\ UNCHANGED <<filesystems, mutex, now, isRoot, chainVer, node, handles,
                   yamlConfig, goroutines>>

(* the FUSE adapter in front of the engine revision with the lock table *)
NextFuse ==
    \/ \E p \in Paths, lt \in LockTypes, pid \in Pids : DoLock(p, lt, pid)
    \/ \E p \in Paths, pid \in Pids : DoUnlock(p, pid)
    \/ \E p \in Paths : Lookup(p)
    \/ \E p \in Paths, o \in Offsets, d \in WriteData : HandleWrite(p, o, d)
    \/ \E p \in Paths, f \in OpenFlags : Open(p, f)
    \/ \E p \in Paths \cup {""} : DoList(p)

SpecFuse == Init /\ [][NextFuse]_vars

(* C17: Open derives the lock type from the open mode and acquires that    *)
(* lock through the engine with the adapter's pid: on an unlocked path it  *)
(* succeeds, leaving a lock record of that type and a handle; when the     *)
(* acquisition fails Open returns EACCES, creates no handle and leaves the *)
(* lock table unchanged.                                                   *)
C17_OpenAcquiresLock ==
    [][ last'.op = "Open"
        => IF ~LockRecord(last'.path).held /\ LockTier >= 0
              /\ filesystems[LockTier].root[last'.path].exists
           THEN /\ last'.err = Nil
                /\ LocalFSIsLocked(filesystems'[LockTier], last'.path)
                     = [locked |-> TRUE, lockType |-> last'.lockType,
                        err |-> Nil]
                /\ filesystems'[LockTier].locks[last'.path].ProcessID = SelfPid
                /\ [path |-> last'.path, lockType |-> last'.lockType]
                     \in fileHandles'
           ELSE last'.err # Nil
                => /\ last'.err = EACCES
                   /\ fileHandles' = fileHandles
                   /\ LockTable' = LockTable ]_vars

(* File.SetAttr: a mode change posts a FileInfo carrying only the mode, a  *)
(* size change posts a zero-filled buffer with the node's mode             *)
SetAttr(path, validMode, validSize, mode, size) ==
    /\ Step
    /\ node[path].known
    /\ validMode \/ validSize
    /\ \E w1 \in {IF validMode
                  THEN handleWrite(filesystems, mutex, path, <<>>, mode, isRoot,
                                   now)
                  ELSE [err |-> Nil, fss |-> filesystems, t |-> now,
                        tierErr |-> NoTierErr, m |-> mutex]} :
       \E n1 \in {IF validMode /\ w1.err = Nil
                  THEN [node EXCEPT ![path].Mode = mode] ELSE node} :
       \E w2 \in {IF validSize /\ w1.err = Nil
                  THEN handleWrite(w1.fss, w1.m, path, [i \in 1 .. size |-> 0],
                                   n1[path].Mode, isRoot, w1.t)
                  ELSE w1} :
          /\ filesystems' = w2.fss
          /\ now' = w2.t
          /\ mutex' = w2.m
          /\ node' = IF validSize /\ w2.err = Nil
                     THEN [n1 EXCEPT ![path].Size = size] ELSE n1
          /\ last' = Call(IF ~validSize THEN "SetAttrMode"
                          ELSE IF ~validMode THEN "SetAttrSize" ELSE "SetAttr",
                          path, SelfPid, 0,
                          IF validSize THEN [i \in 1 .. size |-> 0] ELSE <<>>,
                          IF validMode THEN mode ELSE node[path].Mode,
                          IF w2.err \in {Nil, Blocked} THEN w2.err ELSE EIO,
                          <<>>, -1, w2.tierErr)
    /\ UNCHANGED <<isRoot, chainVer, handles, yamlConfig, goroutines,
                   fileHandles>>

(* the adapter in front of the engine of chain_fs.go; the main store holds *)
(* one file, so that the other name can be created                         *)
InitFuse0 ==
    /\ \E c0 \in FirstConfigs0, r0 \in FirstRoots :
       \E cs \in [Tiers \ {0} -> OtherConfigs] :
          filesystems =
            [i \in Tiers |->
               IF i = NTiers - 1
               THEN NewLocalFS(IF i = 0 THEN c0 ELSE cs[i],
                               [MainRoot EXCEPT !["b"] = NoFile])
               ELSE NewLocalFS(IF i = 0 THEN c0 ELSE cs[i],
                               IF i = 0 THEN r0 ELSE EmptyRoot)]
    /\ InitRest /\ chainVer = 1 /\ isRoot = FALSE
    /\ yamlConfig = ChainConfig(filesystems)

NextFuse0 ==
    \/ \E p \in Paths : Lookup(p)
    \/ \E p \in Paths, o \in Offsets, d \in WriteData : HandleWrite(p, o, d)
    \/ \E p \in Paths, f \in OpenFlags : Create(p, f, 420)
    \/ \E p \in Paths, lt \in LockTypes :
          ReleaseHandle([path |-> p, lockType |-> lt])
    \/ \E p \in Paths, vm, vs \in BOOLEAN, m \in {420, 128} :
          SetAttr(p, vm, vs, m, MaxLen - 1)

SpecFuse0 == InitFuse0 /\ [][NextFuse0]_vars

(* C18: every handle the adapter has handed out, by Open or by Create,     *)
(* holds a lock record on its path owned by the adapter's pid, and its     *)
(* Release succeeds.                                                       *)
C18_HandlesHoldLocks ==
    [][ /\ \A h \in fileHandles' :
             /\ LockTier >= 0
             /\ filesystems'[LockTier].locks[h.path].held
             /\ filesystems'[LockTier].locks[h.path].ProcessID = SelfPid
        /\ last'.op = "Release" => last'.err = Nil ]_vars

(* C19: a SetAttr that changes only the mode leaves the bytes and the      *)
(* length of the file unchanged on every tier and, when it succeeds, sets  *)
(* the node's stored mode to the requested one; a SetAttr that changes     *)
(* only the size writes a zero-filled buffer of exactly the new size with  *)
(* the node's stored mode.                                                 *)
C19_SetAttrKeepsContent ==
    [][ /\ last'.op = "SetAttrMode"
           => /\ \A i \in Tiers :
                   /\ filesystems'[i].root[last'.path].exists
                        = filesystems[i].root[last'.path].exists
                   /\ filesystems'[i].root[last'.path].content
                        = filesystems[i].root[last'.path].content
              /\ last'.err = Nil => node'[last'.path].Mode = last'.mode
        /\ last'.op = "SetAttrSize"
           => /\ \A k \in 1 .. Len(last'.content) : last'.content[k] = 0
              /\ \A i \in Tiers :
                   (CanUpdate(i) /\ last'.tierErr[i] = Nil)
                   => filesystems'[i].root[last'.path]
                        = File(last'.content, node[last'.path].Mode)
              /\ last'.err = Nil => node'[last'.path].Size = Len(last'.content)
      ]_vars

(* C20: a handle Write(offset, data) on a file whose content reads as c    *)
(* succeeds, reporting len(data) bytes written, and stores c' of length    *)
(* max(len(c), offset + len(data)) with data at [offset, offset +          *)
(* len(data)), c's bytes at the other positions below len(c) and zeros in  *)
(* [len(c), offset).                                                       *)
C20_HandleWriteSplice ==
    [][ (last'.op = "HandleWrite"
         /\ handleRead(filesystems, mutex, last'.path, isRoot, now).status = Nil)
        => LET c == handleRead(filesystems, mutex, last'.path, isRoot, now).Content
               offset == last'.lockType
               data == last'.content
               end == offset + Len(data)
               size == IF Len(c) > end THEN Len(c) ELSE end
           IN /\ last'.err = Nil
              /\ \A i \in Tiers :
                   (CanUpdate(i) /\ last'.tierErr[i] = Nil)
                   => LET cc == filesystems'[i].root[last'.path].content
                      IN /\ Len(cc) = size
                         /\ \A k \in 0 .. size - 1 :
                              cc[k + 1] =
                                IF k >= offset /\ k < end THEN data[k - offset + 1]
                                ELSE IF k < Len(c) THEN c[k + 1]
                                ELSE 0 ]_vars

(* C21: two successive handle Writes with the same offset and data leave   *)
(* the file with the content a single such Write leaves: the second Write  *)
(* changes the content of no tier's copy.                                  *)
C21_HandleWriteIdempotent ==
    [][ (/\ last.op = "HandleWrite" /\ last.err = Nil
         /\ last'.op = "HandleWrite" /\ last'.path = last.path
         /\ last'.lockType = last.lockType /\ last'.content = last.content)
        => /\ last'.err = Nil
           /\ last'.data = last.data
           /\ \A i \in Tiers :
                /\ filesystems'[i].root[last.path].exists
                     = filesystems[i].root[last.path].exists
                /\ filesystems'[i].root[last.path].content
                     = filesystems[i].root[last.path].content ]_vars

(* a handle Write has stored its spliced buffer and the same Write is      *)
(* issued again on a file the data did not already match                   *)
C21_Witness ==
    /\ last.op = "HandleWrite" /\ last.err = Nil
    /\ \E i \in Tiers :
         /\ CanUpdate(i)
         /\ filesystems[i].root[last.path].content = last.data
    /\ ENABLED HandleWrite(last.path, last.lockType, last.content)

(* C22: the engine Read walks the tiers in index order and returns the     *)
(* content of the lowest-index tier whose own read succeeds, leaving the   *)
(* tiers after it untouched; if every tier's read fails it returns the     *)
(* error of the last tier and changes no tier.                             *)
C22_ReadWalk ==
    [][ (/\ Returned("Read")
         /\ ~(chainVer = 2 /\ LockRecord(last'.path).held
              /\ LockRecord(last'.path).LockType \in {WriteLock, ExclusiveLock}))
        => LET ok == {i \in Tiers : DirectRead(i, last'.path).err = Nil}
           IN IF ok = {}
              THEN /\ last'.err = DirectRead(NTiers - 1, last'.path).err
                   /\ last'.found = -1
                   /\ filesystems' = filesystems
              ELSE LET k == CHOOSE i \in ok : \A j \in ok : i <= j
                   IN /\ last'.err = Nil
                      /\ last'.found = k
                      /\ last'.data = DirectRead(k, last'.path).data
                      /\ \A j \in Tiers : j > k
                           => filesystems'[j] = filesystems[j] ]_vars

(* a Read has failed on every tier, the tiers failing for different        *)
(* reasons: the first has no such file, the last refused permission        *)
C22_Witness ==
    /\ last.op = "Read" /\ last.err = ErrPermission
    /\ ~filesystems[0].root[last.path].exists
    /\ filesystems[NTiers - 1].root[last.path].exists

NextProp(th) ==
    [th EXCEPT !.i = th.i - 1, !.pc = IF th.i = 0 THEN "unlock" ELSE "prop"]

(* LocalFS.Read up to and including os.ReadFile *)
ReadFileStep(g) ==
    /\ goroutines[g].pc = "walk"
    /\ \E th \in {goroutines[g]} :
       \E r \in {LocalFSRead(filesystems[th.i], th.path, isRoot, now)} :
          SetG(g, IF r.err # Nil
                  THEN [th EXCEPT !.err = r.err, !.i = th.i + 1,
                                  !.pc = IF th.i + 1 >= NTiers
                                         THEN "unlock" ELSE "walk"]
                  ELSE IF filesystems[th.i].config.Role = RoleCache
                  THEN [th EXCEPT !.data = r.data, !.err = Nil, !.pc = "touch"]
                  ELSE [th EXCEPT !.data = r.data, !.err = Nil, !.found = th.i,
                                  !.i = th.i - 1,
                                  !.pc = IF th.i > 0 THEN "prop" ELSE "unlock"])
    /\ UNCHANGED <<filesystems, mutex, now, isRoot, chainVer, node, handles,
                   yamlConfig, last, fileHandles>>

(* the updateCacheEntry call at the end of LocalFS.Read *)
TouchStep(g) ==
    /\ goroutines[g].pc = "touch"
    /\ \E th \in {goroutines[g]} :
          /\ filesystems' =
               [filesystems EXCEPT ![th.i] =
                  updateCacheEntry(@, th.path, Len(th.data), now)]
          /\ SetG(g, [th EXCEPT !.found = th.i, !.i = th.i - 1,
                                !.pc = IF th.i > 0 THEN "prop" ELSE "unlock"])
    /\ now' = now + 1
    /\ UNCHANGED <<mutex, isRoot, chainVer, node, handles, yamlConfig, last,
                   fileHandles>>

(* LocalFS.Write of one round of propagateContent, up to and including     *)
(* ensureCacheSpace; on a tier that is no cache the whole Write            *)
EnsureStep(g) ==
    /\ goroutines[g].pc = "prop"
    /\ \E th \in {goroutines[g]} :
       \E l \in {filesystems[th.i]} :
          IF ~l.config.Features.CanUpdate \/ WriteLockCheck(l, th.path) # Nil
          THEN /\ SetG(g, NextProp(th))
               /\ UNCHANGED <<filesystems, now>>
          ELSE IF l.config.Role # RoleCache
          THEN \E w \in {LocalFSWrite(l, th.path, th.data, PropagateMode,
                                      isRoot, now)} :
                  /\ filesystems' = [filesystems EXCEPT ![th.i] = w.l]
                  /\ now' = w.t
                  /\ SetG(g, NextProp(th))
          ELSE \E e \in {ensureCacheSpace(l, Len(th.data))} :
                  /\ filesystems' = [filesystems EXCEPT ![th.i] = e.l]
                  /\ now' = now
                  /\ SetG(g, IF e.err # Nil THEN NextProp(th)
                             ELSE [th EXCEPT !.pc = "store"])
    /\ UNCHANGED <<mutex, isRoot, chainVer, node, handles, yamlConfig, last,
                   fileHandles>>

(* os.OpenFile, file.Write and os.Chmod of LocalFS.Write *)
StoreStep(g) ==
    /\ goroutines[g].pc = "store"
    /\ \E th \in {goroutines[g]} :
       \E l \in {filesystems[th.i]} :
          IF l.root[th.path].exists /\ ~MayWrite(l.root[th.path], isRoot)
          THEN /\ SetG(g, NextProp(th))
               /\ UNCHANGED filesystems
          ELSE /\ filesystems' =
                    [filesystems EXCEPT ![th.i] =
                       FileChmod(FileWrite(OpenFileTrunc(l, th.path, PropagateMode),
                                           th.path, th.data),
                                 th.path, PropagateMode)]
               /\ SetG(g, [th EXCEPT !.pc = "record"])
    /\ UNCHANGED <<mutex, now, isRoot, chainVer, node, handles, yamlConfig,
                   last, fileHandles>>

(* the updateCacheEntry call at the end of LocalFS.Write *)
RecordStep(g) ==
    /\ goroutines[g].pc = "record"
    /\ \E th \in {goroutines[g]} :
          /\ filesystems' =
               [filesystems EXCEPT ![th.i] =
                  updateCacheEntry(@, th.path, Len(th.data), now)]
          /\ SetG(g, NextProp(th))
    /\ now' = now + 1
    /\ UNCHANGED <<mutex, isRoot, chainVer, node, handles, yamlConfig, last,
                   fileHandles>>

(* the documented chain, a cache with the lock table in front of writable  *)
(* main stores, served by the engine revision with the lock table; each    *)
(* file of the main store fits the cache budget on its own, the two        *)
(* together do not                                                         *)
InitCache ==
    /\ filesystems =
         [i \in Tiers |->
            IF i = 0 /\ NTiers > 1
            THEN NewLocalFS(Config(RoleCache, TRUE, TRUE, TRUE), EmptyRoot)
            ELSE NewLocalFS(Config(RoleMain, TRUE, TRUE, FALSE),
                            IF i = NTiers - 1
                            THEN [MainRoot EXCEPT
                                    !["b"] = File(Ones(CacheMaxSize), 420)]
                            ELSE EmptyRoot)]
    /\ InitRest /\ chainVer = 2 /\ isRoot = FALSE
    /\ yamlConfig = ChainConfig(filesystems)

NextCache ==
    \E g \in Goroutines :
       \/ \E p \in Paths : Begin(g, "Read", p, <<>>)
       \/ AcquireShared(g) \/ IsLockedStep(g)
       \/ ReadFileStep(g) \/ TouchStep(g)
       \/ EnsureStep(g) \/ StoreStep(g) \/ RecordStep(g)
       \/ Release(g)

SpecCache == InitCache /\ [][NextCache]_vars

(* C26: in every reachable state, whatever the interleaving of the tier    *)
(* calls, a cache tier's entry list holds at most one entry per path, and  *)
(* a step that records or refreshes a path leaves its single entry last.   *)
C26_OneEntryPerPath ==
    [][ \A i \in Tiers :
          LET list == filesystems'[i].cacheList
          IN /\ \A j, k \in 1 .. Len(list) :
                  list[j].Path = list[k].Path => j = k
             /\ \A g \in Goroutines :
                  (goroutines[g].pc \in {"touch", "record"}
                   /\ goroutines'[g].pc \notin {"touch", "record"}
                   /\ goroutines[g].i = i)
                  => /\ Len(list) > 0
                     /\ list[Len(list)] =
                          [Path |-> goroutines[g].path,
                           Size |-> Len(goroutines[g].data), LastUsed |-> now]
    ]_vars

(* a goroutine is about to refresh the entry of a path whose entry is not  *)
(* the last of the list                                                    *)
C26_Witness ==
    \E g \in Goroutines :
       /\ goroutines[g].pc \in {"touch", "record"}
       /\ LET list == filesystems[goroutines[g].i].cacheList
          IN /\ Len(list) = 2
             /\ list[1].Path = goroutines[g].path

(* C27: when the removal of an eviction victim's file fails, the cache     *)
(* tier's Write returns without writing the path and without adding or     *)
(* refreshing the path's entry (the path's old copy stays, unless it was   *)
(* itself evicted before the failure), and the victim's entry stays in    *)
(* the list.                                                               *)
C27_EvictionFailure ==
    [][ \A g \in Goroutines :
          LET th == goroutines[g]
              l == filesystems[th.i]
          IN (/\ th.pc = "prop" /\ goroutines'[g] # th
              /\ l.config.Role = RoleCache /\ l.config.Features.CanUpdate
              /\ WriteLockCheck(l, th.path) = Nil
              /\ EvictLoop(l, SumSizes(l.cacheList), Len(th.data)).err # Nil)
             => LET list == filesystems'[th.i].cacheList
                IN /\ goroutines'[g].pc \in {"prop", "unlock"}
                   /\ goroutines'[g].i = th.i - 1
                   /\ filesystems'[th.i].root[th.path] \in {l.root[th.path], NoFile}
                   /\ \A e \in {list[k] : k \in 1 .. Len(list)} :
                        e.Path = th.path
                        => e \in {l.cacheList[k] : k \in 1 .. Len(l.cacheList)}
                   /\ \E k \in 1 .. Len(list) :
                        /\ ~filesystems'[th.i].root[list[k].Path].exists
                        /\ \A j \in 1 .. Len(list) :
                             list[k].LastUsed <= list[j].LastUsed
                        /\ \E j \in 1 .. Len(l.cacheList) :
                             l.cacheList[j] = list[k] ]_vars

(* a Read served by a later tier has finished its back-propagation, the    *)
(* cache did not take the content, and the cache list is over its budget   *)
(* for it with an oldest entry whose file is gone                          *)
C27_Witness ==
    \E g \in Goroutines :
       LET th == goroutines[g]
           l == filesystems[0]
       IN /\ th.op = "Read" /\ th.pc = "unlock" /\ th.found > 0
          /\ l.config.Role = RoleCache
          /\ ~l.root[th.path].exists
          /\ Len(l.cacheList) > 0
          /\ ~l.root[l.cacheList[OldestIdx(l.cacheList)].Path].exists
          /\ SumSizes(l.cacheList) + Len(th.data) > l.config.MaxSize

(* C28: a lock record changes only when an acquire on a path without a     *)
(* record creates it and when a release by its owner removes it: no Read,  *)
(* Write, Delete, back-propagation, eviction, refused acquire or refused   *)
(* release alters a record, and the tier methods behind the engine's Write *)
(* and Delete leave the table of their tier as it is.                      *)
C28_LockRecordFrame ==
    [][ /\ \A i \in Tiers :
             filesystems'[i].locks # filesystems[i].locks
             => \A p \in Paths :
                  filesystems'[i].locks[p] # filesystems[i].locks[p]
                  => /\ i = LockTier /\ last'.path = p /\ last'.err = Nil
                     /\ IF filesystems[i].locks[p].held
                        THEN /\ last'.op = "Unlock"
                             /\ filesystems[i].locks[p].ProcessID = last'.pid
                             /\ filesystems'[i].locks[p] = NoLock
                        ELSE /\ last'.op = "Lock"
                             /\ filesystems'[i].locks[p] =
                                  [held |-> TRUE, LockType |-> last'.lockType,
                                   ProcessID |-> last'.pid, CreatedAt |-> now]
        /\ last'.op = "Write"
           => \A i \in Tiers :
                LocalFSWrite(filesystems[i], last'.path, last'.content,
                             last'.mode, isRoot, now).l.locks
                  = filesystems[i].locks
        /\ last'.op = "Delete"
           => \A i \in Tiers :
                LocalFSDelete(filesystems[i], last'.path).l.locks
                  = filesystems[i].locks
    ]_vars

(* a Read has back-propagated into the lock-capable cache, the eviction    *)
(* it caused has removed the file of a locked path, and the record is      *)
(* still in the table                                                      *)
C28_Witness ==
    /\ last.op = "Read" /\ last.err = Nil /\ last.found > 0
    /\ LockTier = 0
    /\ \E p \in Paths :
         /\ LockRecord(p).held
         /\ ~filesystems[0].root[p].exists

(* C29: the engine's Info and List return the answer of the lowest-index   *)
(* tier whose own Info or List succeeds, or the error of the last tier     *)
(* when every tier fails, and change nothing: no file, cache entry, lock   *)
(* record or clock value.                                                  *)
C29_InfoListFrame ==
    [][ /\ Returned("Lookup")
           => LET p == last'.path
                  ok == {i \in Tiers : LocalFSInfo(filesystems[i], p).err = Nil}
              IN /\ filesystems' = filesystems /\ mutex' = mutex /\ now' = now
                 /\ IF ok = {}
                    THEN /\ last'.err
                              = LocalFSInfo(filesystems[NTiers - 1], p).err
                         /\ node' = node
                    ELSE LET k == CHOOSE i \in ok : \A j \in ok : i <= j
                             r == LocalFSInfo(filesystems[k], p)
                         IN /\ last'.err = Nil
                            /\ node'[p] = [known |-> TRUE, Mode |-> r.Mode,
                                           Size |-> r.Size]
        /\ Returned("List")
           => LET p == last'.path
                  ok == {i \in Tiers : LocalFSList(filesystems[i], p).err = Nil}
              IN /\ filesystems' = filesystems /\ mutex' = mutex /\ now' = now
                 /\ IF ok = {}
                    THEN /\ last'.err
                              = LocalFSList(filesystems[NTiers - 1], p).err
                         /\ last'.found = -1
                    ELSE LET k == CHOOSE i \in ok : \A j \in ok : i <= j
                         IN /\ last'.err = Nil
                            /\ last'.found = k
                            /\ last'.data
                                 = LocalFSList(filesystems[k], p).files ]_vars

(* a List of a path that is a file on the main store and absent from the   *)
(* first tier has returned the main store's error                          *)
C29_Witness ==
    /\ last.op = "List" /\ last.err = ErrNotDir
    /\ ~filesystems[0].root[last.path].exists
    /\ \E p \in Paths : LockRecord(p).held

(* C30: every engine Write or Delete returns, whatever else is running:    *)
(* no such call is left waiting for the engine mutex for ever.             *)
C30_WriteDeleteReturn ==
    [][ last'.op \in {"Write", "Delete"} => last'.err # Blocked ]_vars

(* C31: every engine Read returns under any interleaving: no Read is ever  *)
(* left at the shared acquisition inside IsLocked, holding the shared lock *)
(* it took first, behind a writer that waits for that very lock to be      *)
(* given back.                                                             *)
C31_ReadReturns ==
    \A g \in Goroutines :
       (/\ goroutines[g].op = "Read" /\ goroutines[g].pc = "islocked"
        /\ mutex.readers > 0)
       => ~(/\ mutex.pending
            /\ \E h \in Goroutines \ {g} :
                 /\ goroutines[h].pc = "pending"
                 /\ goroutines[h].op \in {"Write", "Delete"})

(* C32: once concurrent engine Reads that back-propagated into a cache     *)
(* tier have all returned, the sizes of the tier's cache entries sum to at *)
(* most its MaxSize (every file read fits the budget on its own).          *)
C32_ConcurrentBudget ==
    (\A g \in Goroutines : goroutines[g].pc = "idle")
    => \A i \in CacheTiers :
         SumSizes(filesystems[i].cacheList) <= filesystems[i].config.MaxSize

(* C33: whenever no tier operation is in progress, every entry of a cache  *)
(* tier's list names a file that exists in that tier's directory, under    *)
(* any interleaving of concurrent engine Reads.                            *)
C33_EntriesHaveFiles ==
    (\A g \in Goroutines : goroutines[g].pc \in {"idle", "lock", "unlock"})
    => \A i \in CacheTiers :
         \A k \in 1 .. Len(filesystems[i].cacheList) :
            filesystems[i].root[filesystems[i].cacheList[k].Path].exists

(* C34: on a tier that is a cache and keeps the lock table, the file of a  *)
(* path that has a lock record exists on that tier until the record is     *)
(* released: no step removes the file of a path whose record stays.        *)
C34_LockedFileStays ==
    [][ \A i \in CacheTiers, p \in Paths :
          (/\ filesystems[i].config.Features.CanLock
           /\ filesystems[i].locks[p].held /\ filesystems[i].root[p].exists
           /\ filesystems'[i].locks[p].held)
          => filesystems'[i].root[p].exists ]_vars

(* C35: an engine Write that stores, on a cache tier within its budget, a  *)
(* path that already has a cache entry there, with content no larger than  *)
(* that entry records, evicts no other path from the tier.                 *)
C35_OverwriteEvictsNothing ==
    [][ Returned("Write")
        => \A i \in CacheTiers :
             LET list == filesystems[i].cacheList
                 idx == {k \in 1 .. Len(list) : list[k].Path = last'.path}
             IN (/\ CanUpdate(i)
                 /\ SumSizes(list) <= filesystems[i].config.MaxSize
                 /\ \E k \in idx : Len(last'.content) <= list[k].Size)
                => \A k \in (1 .. Len(list)) \ idx :
                     /\ filesystems'[i].root[list[k].Path].exists
                     /\ \E j \in 1 .. Len(filesystems'[i].cacheList) :
                          filesystems'[i].cacheList[j] = list[k] ]_vars

(* C36: read-your-writes. An engine Read that directly follows a           *)
(* successful engine Write of the same path returns the written bytes.     *)
C36_ReadYourWrites ==
    [][ (/\ last.op = "Write"
         /\ last.err = Nil
         /\ Returned("Read")
         /\ last'.path = last.path)
        => (last'.err = Nil /\ last'.data = last.content) ]_vars

(* C37: an engine Delete of an unlocked path held by a can_delete tier     *)
(* returns success having removed it from every can_delete tier that held   *)
(* it, whether or not the other can_delete tiers contain the path.          *)
C37_DeleteSucceeds ==
    [][ (/\ Returned("Delete")
         /\ \A i \in Tiers : ~filesystems[i].locks[last'.path].held
         /\ \E i \in Tiers : /\ filesystems[i].config.Features.CanDelete
                              /\ filesystems[i].root[last'.path].exists)
        => /\ last'.err = Nil
           /\ \A i \in Tiers :
                filesystems[i].config.Features.CanDelete => ~filesystems'[i].root[last'.path].exists ]_vars

(* C38: when both pids hold a successfully acquired Read lock on a path, a *)
(* successful release by one of them leaves the path read-locked.          *)
C38_ReadLockUntilLastRelease ==
    [][ (/\ Returned("Unlock")
         /\ last'.err = Nil
         /\ handles[last'.path] = Pids
         /\ LockRecord(last'.path).held
         /\ LockRecord(last'.path).LockType = ReadLock)
        => /\ filesystems'[LockTier].locks[last'.path].held
           /\ filesystems'[LockTier].locks[last'.path].LockType = ReadLock
      ]_vars

(* C40: after a successful handle Write the size kept in the file node,    *)
(* which Attr reports, equals the length of the content written back.      *)
C40_NodeSizeIsContentLength ==
    [][ (Returned("HandleWrite") /\ last'.err = Nil)
        => node'[last'.path].Size = Len(last'.data) ]_vars

(* ------------------- handle writes served concurrently ------------------ *)
(* the adapter serves each request on its own goroutine; FileHandle.Write  *)
(* is two requests to the server, GET /read and POST /write, and another   *)
(* handle's requests can be served between them                            *)

(* FileHandle.Write is entered with a write request *)
BeginHandleWrite(g, path, offset, data) ==
    /\ Step
    /\ goroutines[g].pc = "idle"
    /\ node[path].known
    /\ offset + Len(data) <= MaxLen
    /\ SetG(g, [Idle EXCEPT !.pc = "readall", !.op = "HandleWrite",
                            !.path = path, !.i = offset, !.data = data])
    /\ UNCHANGED <<filesystems, mutex, now, isRoot, chainVer, node, handles,
                   yamlConfig, last, fileHandles>>

(* h.file.ReadAll and the splice of the request's data into the buffer *)
ReadAllStep(g) ==
    /\ goroutines[g].pc = "readall"
    /\ \E rd \in {handleRead(filesystems, mutex, goroutines[g].path, isRoot,
                             now)} :
          /\ filesystems' = rd.fss
          /\ now' = rd.t
          /\ mutex' = rd.m
          /\ SetG(g, IF rd.status # Nil
                     THEN [goroutines[g] EXCEPT
                             !.pc = "done",
                             !.err = IF rd.status = Blocked THEN Blocked
                                     ELSE ErrHTTP]
                     ELSE [goroutines[g] EXCEPT
                             !.pc = "post",
                             !.content = SpliceWrite(rd.Content, goroutines[g].i,
                                                     goroutines[g].data)])
    /\ UNCHANGED <<isRoot, chainVer, node, handles, yamlConfig, last,
                   fileHandles>>

(* the POST /write of the whole buffer, and the node's size on success *)
PostStep(g) ==
    /\ goroutines[g].pc = "post"
    /\ LET th == goroutines[g]
       IN \E wr \in {handleWrite(filesystems, mutex, th.path, th.content,
                                 node[th.path].Mode, isRoot, now)} :
             /\ filesystems' = wr.fss
             /\ now' = wr.t
             /\ mutex' = wr.m
             /\ node' = IF wr.err = Nil
                        THEN [node EXCEPT ![th.path].Size = th.i + Len(th.data)]
                        ELSE node
             /\ SetG(g, [th EXCEPT !.pc = "done", !.err = wr.err])
             /\ last' = Call("HandleWrite", th.path, SelfPid, th.i, th.data,
                             node[th.path].Mode, wr.err, th.content, -1,
                             wr.tierErr)
    /\ UNCHANGED <<isRoot, chainVer, handles, yamlConfig, fileHandles>>

(* the callers have their results: no write is in progress any more *)
Reply ==
    /\ \A g \in Goroutines : goroutines[g].pc \in {"idle", "done"}
    /\ \E g \in Goroutines : goroutines[g].pc = "done"
    /\ goroutines' = [g \in Goroutines |-> Idle]
    /\ UNCHANGED <<filesystems, mutex, now, isRoot, chainVer, node, handles,
                   yamlConfig, last, fileHandles>>

(* the documented chain, a cache in front of writable main stores, served  *)
(* by the engine of chain_fs.go                                            *)
InitHandle ==
    /\ filesystems =
         [i \in Tiers |->
            IF i = 0 /\ NTiers > 1
            THEN NewLocalFS(Config(RoleCache, TRUE, TRUE, TRUE), EmptyRoot)
            ELSE NewLocalFS(Config(RoleMain, TRUE, TRUE, FALSE),
                            IF i = NTiers - 1 THEN MainRoot ELSE EmptyRoot)]
    /\ InitRest /\ chainVer = 1 /\ isRoot = FALSE
    /\ yamlConfig = ChainConfig(filesystems)

NextHandle ==
    \/ \E p \in Paths : Lookup(p)
    \/ \E g \in Goroutines :
          \/ \E p \in Paths, o \in Offsets, d \in WriteData :
                BeginHandleWrite(g, p, o, d)
          \/ ReadAllStep(g)
          \/ PostStep(g)
    \/ Reply

SpecHandle == InitHandle /\ [][NextHandle]_vars

(* C39: when two handle Writes to one file at disjoint byte ranges have    *)
(* both returned success, the file read back holds the data of both at     *)
(* their offsets.                                                          *)
C39_BothWritesTakeEffect ==
    \A g, h \in Goroutines :
       (/\ g # h
        /\ goroutines[g].pc = "done" /\ goroutines[h].pc = "done"
        /\ goroutines[g].op = "HandleWrite" /\ goroutines[h].op = "HandleWrite"
        /\ goroutines[g].err = Nil /\ goroutines[h].err = Nil
        /\ goroutines[g].path = goroutines[h].path
        /\ \/ goroutines[g].i + Len(goroutines[g].data) <= goroutines[h].i
           \/ goroutines[h].i + Len(goroutines[h].data) <= goroutines[g].i)
       => LET file == handleRead(filesystems, mutex, goroutines[g].path,
                                 isRoot, now).Content
          IN \A k \in 1 .. Len(goroutines[g].data) :
                /\ goroutines[g].i + k <= Len(file)
                /\ file[goroutines[g].i + k] = goroutines[g].data[k]

====
